---- MODULE Spec2Model ----
(***************************************************************************)
(* payoutd: the daemon that bridges the SMART Hopper and the SMART Payout  *)
(* validator (SSP v6 over one serial line) to redis request, response and  *)
(* event topics.  The model follows src/payoutd.c: main() and setup() are  *)
(* stepped through one SSP exchange at a time, the libevent callbacks      *)
(* (poll tick, quit tick, request message) run to completion, and the      *)
(* peers' answers are chosen by the environment.                           *)
(*                                                                         *)
(* exch and pub hold what the last step did: the SSP exchanges it made     *)
(* and the messages it handed to redis, in order.  redisAsyncCommand only  *)
(* queues a message; the event loop writes the queue to the socket.        *)
(***************************************************************************)
EXTENDS Integers, Sequences, FiniteSets, TLC

VARIABLES
    pc,                 \* position of main(): see Init and the Main* steps
    step,               \* index of the next exchange inside the current setup phase
    exitCode,           \* process exit code, -1 while running
    sspAvailable,       \* metacash.sspAvailable
    acceptCoins,        \* metacash.acceptCoins
    receivedSignal,     \* the module-wide receivedSignal
    evPollInstalled,    \* evtimer_add(evPoll) has run
    sspDeviceAvailable, \* device -> 0/1
    channelInhibits,    \* device -> byte
    sspSetupReq,        \* device -> [UnitType, ChannelData]
    uuidClock,          \* number of response msgIds generated so far
    tick,               \* position inside cbOnPollEvent
    last,               \* what the last step was
    req,                \* the request the last cbOnRequestMessage received
    cmd,                \* the struct m_command it built
    exch,               \* SSP exchanges of the last step
    pub,                \* messages published by the last step
    unsent,             \* redisPublishCtx holds commands not yet written to redis
    session             \* device -> the command session beneath its exchanges

vars == <<pc, step, exitCode, sspAvailable, acceptCoins, receivedSignal,
          evPollInstalled, sspDeviceAvailable, channelInhibits, sspSetupReq,
          uuidClock, tick, last, req, cmd, exch, pub, unsent, session>>

(***************************************************************************)
(* Bounds of the model.                                                    *)
(***************************************************************************)
\* exchanges of one peer that get a valid response, when the frames of the
\* exchanges are stepped through
MaxExchanges == 3
\* requests handled in one run (each consumes one generated msgId)
MaxRequests == 2
\* the same when clients send channel commands only
MaxChannelRequests == 3
\* events in one POLL batch
MaxEvents == 2

(***************************************************************************)
(* Devices, topics, SSP response codes.                                    *)
(***************************************************************************)
Hopper == "hopper"
Validator == "validator"
Devices == {Hopper, Validator}

RequestTopic(dev) == dev \o "-request"
\* every reply goes to one topic, whatever the request topic
ResponseTopic_Validator(dev) == "validator-response"
ResponseTopic(dev) == dev \o "-response"
EventTopic(dev) == dev \o "-event"
PayoutEventTopic == "payout-event"

SSP_RESPONSE_OK == "SSP_RESPONSE_OK"
SSP_RESPONSE_UNKNOWN_COMMAND == "SSP_RESPONSE_UNKNOWN_COMMAND"
SSP_RESPONSE_INCORRECT_PARAMETERS == "SSP_RESPONSE_INCORRECT_PARAMETERS"
SSP_RESPONSE_INVALID_PARAMETER == "SSP_RESPONSE_INVALID_PARAMETER"
SSP_RESPONSE_COMMAND_NOT_PROCESSED == "SSP_RESPONSE_COMMAND_NOT_PROCESSED"
SSP_RESPONSE_SOFTWARE_ERROR == "SSP_RESPONSE_SOFTWARE_ERROR"
SSP_RESPONSE_CHECKSUM_ERROR == "SSP_RESPONSE_CHECKSUM_ERROR"
SSP_RESPONSE_FAILURE == "SSP_RESPONSE_FAILURE"
SSP_RESPONSE_HEADER_FAILURE == "SSP_RESPONSE_HEADER_FAILURE"
SSP_RESPONSE_KEY_NOT_SET == "SSP_RESPONSE_KEY_NOT_SET"
SSP_RESPONSE_TIMEOUT == "SSP_RESPONSE_TIMEOUT"
\* a response byte that is none of the enumerated codes
SSP_RESPONSE_OTHER == "SSP_RESPONSE_OTHER"

\* the answers the environment gives to an exchange
Outcomes ==
    {SSP_RESPONSE_OK, SSP_RESPONSE_TIMEOUT, SSP_RESPONSE_KEY_NOT_SET,
     SSP_RESPONSE_COMMAND_NOT_PROCESSED, SSP_RESPONSE_FAILURE, SSP_RESPONSE_OTHER}

CURRENCY == "EUR"
SSP6_OPTION_BYTE_TEST == "TEST"
SSP6_OPTION_BYTE_DO == "DO"

(***************************************************************************)
(* Records of the trace variables.                                         *)
(***************************************************************************)
\* one SSP exchange: the command as the peer receives it and its answer
\* (data: the response bytes after the code that the caller reads)
Exchange(dev, name, args, resp) ==
    [dev |-> dev, cmd |-> name, args |-> args, resp |-> resp, data |-> <<>>]

\* one message handed to redisAsyncCommand("PUBLISH topic payload"); keys are
\* the JSON members of the payload, src the batch position of the polled
\* event that caused it (0 when none did), body what stands between the
\* brackets of a "levels" member, piece by piece
Message(topic, keys, msgId, correlId, text) ==
    [topic |-> topic, keys |-> keys, msgId |-> msgId, correlId |-> correlId,
     text |-> text, amount |-> 0, channel |-> 0, src |-> 0, body |-> <<>>]

\* a char* : <<>> is NULL, <<s>> points to s
NULL == <<>>
Ptr(s) == <<s>>

NoMember == [t |-> "none", s |-> "", cs |-> <<>>, n |-> 0, wraps |-> 0]
\* the members of a configure-bezel request
BezelMembers == {"r", "g", "b", "type"}
NoRequest ==
    [topic |-> "", kind |-> "none", msgId |-> NULL, command |-> NULL,
     channels |-> NoMember, amount |-> NoMember, level |-> NoMember,
     bezel |-> [k \in BezelMembers |-> NoMember]]
NoCommand ==
    [msgId |-> NULL, correlId |-> NULL, command |-> NULL,
     responseTopic |-> "", device |-> ""]

(***************************************************************************)
(* Bytes and bit masks.                                                    *)
(***************************************************************************)
Pow2(n) == 2 ^ n
Bit(m, i) == (m \div Pow2(i)) % 2
\* 1 << d written for 1 << (d - 1)
BitSet_Next(m, i) == IF Bit(m, i + 1) = 1 THEN m ELSE m + Pow2(i + 1)
\* the mask left as it is
BitClear_Keep(m, i) == m
\* m | (1 << i) and m & ~(1 << i) on an unsigned char
BitSet(m, i) == IF Bit(m, i) = 1 THEN m ELSE m + Pow2(i)
BitClear(m, i) == IF Bit(m, i) = 1 THEN m - Pow2(i) ELSE m

\* the values an unsigned char of never-written stack memory may hold
StackGarbage == {0, 164}

(***************************************************************************)
(* What the SETUP_REQUEST of a peer may report: the unit type and the      *)
(* channel table (denomination values, in channel order).                  *)
(***************************************************************************)
SetupReplies(dev) ==
    IF dev = Hopper
    THEN {[UnitType |-> 3, ChannelData |-> <<10, 200>>]}
    ELSE {[UnitType |-> 6, ChannelData |-> <<5, 10>>],
          [UnitType |-> 7, ChannelData |-> <<5, 10, 20>>]}
\* no frame was sent yet: the sequence bit of the first frame, no exchange
\* answered
NoSession == [seq |-> 0, frames |-> <<>>, result |-> "idle", valid |-> 0]
\* the struct before SETUP_REQUEST filled it
NoSetupData == [UnitType |-> 0, ChannelData |-> <<>>]

(***************************************************************************)
(* Trace bookkeeping: every step says what it was and what it did; a step  *)
(* that is not a request clears req and cmd.                               *)
(***************************************************************************)
Did(what, exchanges, messages) ==
    /\ last' = what
    /\ exch' = exchanges
    /\ pub' = messages
    \* redisAsyncCommand appends to the output buffer of the context
    /\ unsent' = (unsent \/ messages # <<>>)
    \* an exchange is one step here, with the answer send_ssp_command returns
    /\ UNCHANGED session

NoRequestNow ==
    /\ req' = NoRequest
    /\ cmd' = NoCommand

\* die(reason, rc): exit(rc)
die(rc) ==
    /\ pc' = "died"
    /\ exitCode' = rc

\* every payout event announces the start
PayoutEvent_Started(name) ==
    Message(PayoutEventTopic, {"event"}, "", "", "started")
PayoutEvent(name) ==
    Message(PayoutEventTopic, {"event"}, "", "", name)

(***************************************************************************)
(* The state main() has built before it parses the command line.           *)
(***************************************************************************)
Init ==
    /\ pc = "parseCmdLine"
    /\ step = 0
    /\ exitCode = -1
    /\ sspAvailable = 0
    /\ acceptCoins = 0
    /\ receivedSignal = 0
    /\ evPollInstalled = FALSE
    /\ sspDeviceAvailable = [d \in Devices |-> 0]
    /\ channelInhibits \in [Devices -> StackGarbage]
    /\ sspSetupReq = [d \in Devices |-> NoSetupData]
    /\ uuidClock = 0
    /\ tick = "idle"
    /\ last = "init"
    /\ req = NoRequest
    /\ cmd = NoCommand
    /\ exch = <<>>
    /\ pub = <<>>
    /\ unsent = FALSE
    /\ session = [d \in Devices |-> NoSession]


\* signalHandler: SIGINT (2) or SIGTERM (15) arrives
Signals == {2, 15}
signalHandler(sig) ==
    /\ pc \in {"parseCmdLine", "loop"}
    /\ tick = "idle"
    /\ receivedSignal = 0
    /\ receivedSignal' = sig
    /\ Did("signal", <<>>, <<>>)
    /\ NoRequestNow
    /\ UNCHANGED <<pc, step, exitCode, sspAvailable, acceptCoins, evPollInstalled,
                   sspDeviceAvailable, channelInhibits, sspSetupReq, uuidClock, tick>>

\* parseCmdLine and its caller: -c sets acceptCoins, an unknown option is fatal
CmdLines == {"", "-c", "-x"}
parseCmdLine(argv) ==
    /\ pc = "parseCmdLine"
    /\ IF argv = "-x"
       THEN die(1) /\ UNCHANGED acceptCoins
       ELSE /\ pc' = "openSerial"
            /\ acceptCoins' = (IF argv = "-c" THEN 1 ELSE acceptCoins)
            /\ UNCHANGED exitCode
    \* the step is named with the option it parsed
    /\ Did("parseCmdLine" \o argv, <<>>, <<>>)
    /\ NoRequestNow
    /\ UNCHANGED <<step, sspAvailable, receivedSignal, evPollInstalled,
                   sspDeviceAvailable, channelInhibits, sspSetupReq, uuidClock, tick>>

\* mcSspOpenSerialDevice and main's use of its result
mcSspOpenSerialDevice(opened) ==
    /\ pc = "openSerial"
    /\ sspAvailable' = (IF opened THEN 1 ELSE sspAvailable)
    /\ pc' = "connectRedis"
    /\ Did("openSerial", <<>>, <<>>)
    /\ NoRequestNow
    /\ UNCHANGED <<step, exitCode, acceptCoins, receivedSignal, evPollInstalled,
                   sspDeviceAvailable, channelInhibits, sspSetupReq, uuidClock, tick>>

\* setup(), up to the hardware part: both redis contexts, then evCheckQuit
setupRedis(connected) ==
    /\ pc = "connectRedis"
    /\ IF ~connected
       THEN die(1) /\ UNCHANGED step
       ELSE /\ pc' = (IF sspAvailable # 0 THEN "initValidator" ELSE "installPoll")
            /\ step' = 1
            /\ UNCHANGED exitCode
    /\ Did("setupRedis", <<>>, <<>>)
    /\ NoRequestNow
    /\ UNCHANGED <<sspAvailable, acceptCoins, receivedSignal, evPollInstalled,
                   sspDeviceAvailable, channelInhibits, sspSetupReq, uuidClock, tick>>

(***************************************************************************)
(* setup(), the hardware part.  One exchange per step.                     *)
(***************************************************************************)
\* the exchanges of mcSspInitializeDevice, in order; checked = a failure returns
InitSequence ==
    << [cmd |-> "SYNC",                 args |-> <<>>,  checked |-> TRUE],
       [cmd |-> "SETUP_ENCRYPTION",     args |-> <<>>,  checked |-> TRUE],
       [cmd |-> "HOST_PROTOCOL",        args |-> <<6>>, checked |-> TRUE],
       [cmd |-> "SETUP_REQUEST",        args |-> <<>>,  checked |-> TRUE],
       [cmd |-> "GET_FIRMWARE_VERSION", args |-> <<>>,  checked |-> FALSE],
       [cmd |-> "GET_DATASET_VERSION",  args |-> <<>>,  checked |-> FALSE],
       [cmd |-> "ENABLE",               args |-> <<>>,  checked |-> TRUE] >>

\* where setup() goes once both devices went through mcSspInitializeDevice
AfterInitialize(avail) ==
    IF avail[Hopper] # 0 THEN "configureHopper"
    ELSE IF avail[Validator] # 0 THEN "configureValidator"
    ELSE "installPoll"

\* one exchange of mcSspInitializeDevice(dev); setup() initializes the
\* validator first, then the hopper
mcSspInitializeDevice(dev, resp, reply) ==
    /\ pc = (IF dev = Validator THEN "initValidator" ELSE "initHopper")
    /\ LET s == InitSequence[step]
           ok == resp = SSP_RESPONSE_OK
           returns == (s.checked /\ ~ok) \/ step = Len(InitSequence)
           avail == IF step = Len(InitSequence) /\ ok
                    THEN [sspDeviceAvailable EXCEPT ![dev] = 1]
                    ELSE sspDeviceAvailable
       IN /\ Did("initialize", <<Exchange(dev, s.cmd, s.args, resp)>>, <<>>)
          /\ sspDeviceAvailable' = avail
          /\ sspSetupReq' = IF s.cmd = "SETUP_REQUEST" /\ ok
                            THEN [sspSetupReq EXCEPT ![dev] = reply]
                            ELSE sspSetupReq
          /\ IF returns
             THEN /\ pc' = (IF dev = Validator THEN "initHopper"
                            ELSE AfterInitialize(avail))
                  /\ step' = 1
             ELSE /\ pc' = pc
                  /\ step' = step + 1
    /\ NoRequestNow
    /\ UNCHANGED <<exitCode, sspAvailable, acceptCoins, receivedSignal,
                   evPollInstalled, channelInhibits, uuidClock, tick>>

\* enum channel_state (ENABLED is a reserved word of TLA+)
STATE_DISABLED == "DISABLED"
STATE_ENABLED == "ENABLED"

\* the same when the coin channels are disabled whatever acceptCoins is
configureHopper_Disabled(resp) ==
    /\ pc = "configureHopper"
    /\ LET table == sspSetupReq[Hopper].ChannelData
           desiredChannelState == STATE_DISABLED
       IN IF step > Len(table)
          THEN \* NumberOfChannels = 0: the loop body never runs
               /\ Did("configureHopper", <<>>, <<>>)
               /\ pc' = (IF sspDeviceAvailable[Validator] # 0
                         THEN "configureValidator" ELSE "installPoll")
               /\ step' = 1
          ELSE /\ Did("configureHopper",
                      <<Exchange(Hopper, "SET_COINMECH_INHIBITS",
                                 <<table[step], desiredChannelState>>, resp)>>, <<>>)
               /\ IF step = Len(table)
                  THEN /\ pc' = (IF sspDeviceAvailable[Validator] # 0
                                 THEN "configureValidator" ELSE "installPoll")
                       /\ step' = 1
                  ELSE /\ pc' = pc
                       /\ step' = step + 1
    /\ NoRequestNow
    /\ UNCHANGED <<exitCode, sspAvailable, acceptCoins, receivedSignal, evPollInstalled,
                   sspDeviceAvailable, channelInhibits, sspSetupReq, uuidClock, tick>>

\* setup(): SMART Hopper configuration, one channel per step
configureHopper(resp) ==
    /\ pc = "configureHopper"
    /\ LET table == sspSetupReq[Hopper].ChannelData
           desiredChannelState == IF acceptCoins # 0 THEN STATE_ENABLED ELSE STATE_DISABLED
       IN IF step > Len(table)
          THEN \* NumberOfChannels = 0: the loop body never runs
               /\ Did("configureHopper", <<>>, <<>>)
               /\ pc' = (IF sspDeviceAvailable[Validator] # 0
                         THEN "configureValidator" ELSE "installPoll")
               /\ step' = 1
          ELSE /\ Did("configureHopper",
                      <<Exchange(Hopper, "SET_COINMECH_INHIBITS",
                                 <<table[step], desiredChannelState>>, resp)>>, <<>>)
               /\ IF step = Len(table)
                  THEN /\ pc' = (IF sspDeviceAvailable[Validator] # 0
                                 THEN "configureValidator" ELSE "installPoll")
                       /\ step' = 1
                  ELSE /\ pc' = pc
                       /\ step' = step + 1
    /\ NoRequestNow
    /\ UNCHANGED <<exitCode, sspAvailable, acceptCoins, receivedSignal, evPollInstalled,
                   sspDeviceAvailable, channelInhibits, sspSetupReq, uuidClock, tick>>

SSP_OPTION_ROUTE_CASHBOX == 1
SSP_OPTION_ROUTE_STORAGE == 0

\* the payload of mc_ssp_set_refill_mode
RefillModePayload == <<5, 129, 16, 17, 1, 1, 82, 245>>

\* the same with the small notes stored and the large ones sent to the cashbox
ValidatorSequence_Swapped(unitType) ==
    << [cmd |-> "SET_REFILL_MODE", args |-> RefillModePayload, checked |-> FALSE],
       [cmd |-> "SET_ROUTE", args |-> <<500, CURRENCY, SSP_OPTION_ROUTE_STORAGE>>, checked |-> FALSE],
       [cmd |-> "SET_ROUTE", args |-> <<1000, CURRENCY, SSP_OPTION_ROUTE_STORAGE>>, checked |-> FALSE],
       [cmd |-> "SET_ROUTE", args |-> <<2000, CURRENCY, SSP_OPTION_ROUTE_STORAGE>>, checked |-> FALSE],
       [cmd |-> "SET_ROUTE", args |-> <<5000, CURRENCY, SSP_OPTION_ROUTE_CASHBOX>>, checked |-> FALSE],
       [cmd |-> "SET_ROUTE", args |-> <<10000, CURRENCY, SSP_OPTION_ROUTE_CASHBOX>>, checked |-> FALSE],
       [cmd |-> "SET_ROUTE", args |-> <<20000, CURRENCY, SSP_OPTION_ROUTE_CASHBOX>>, checked |-> FALSE],
       [cmd |-> "SET_ROUTE", args |-> <<50000, CURRENCY, SSP_OPTION_ROUTE_CASHBOX>>, checked |-> FALSE],
       [cmd |-> "SET_INHIBITS", args |-> <<0, 0>>, checked |-> TRUE],
       [cmd |-> "ENABLE_PAYOUT", args |-> <<unitType>>, checked |-> TRUE] >>

\* the exchanges of the validator part of setup(), in order; the answer to
\* SET_INHIBITS and ENABLE_PAYOUT is checked, a failure returns from setup()
ValidatorSequence(unitType) ==
    << [cmd |-> "SET_REFILL_MODE", args |-> RefillModePayload, checked |-> FALSE],
       [cmd |-> "SET_ROUTE", args |-> <<500, CURRENCY, SSP_OPTION_ROUTE_CASHBOX>>, checked |-> FALSE],
       [cmd |-> "SET_ROUTE", args |-> <<1000, CURRENCY, SSP_OPTION_ROUTE_CASHBOX>>, checked |-> FALSE],
       [cmd |-> "SET_ROUTE", args |-> <<2000, CURRENCY, SSP_OPTION_ROUTE_CASHBOX>>, checked |-> FALSE],
       [cmd |-> "SET_ROUTE", args |-> <<5000, CURRENCY, SSP_OPTION_ROUTE_STORAGE>>, checked |-> FALSE],
       [cmd |-> "SET_ROUTE", args |-> <<10000, CURRENCY, SSP_OPTION_ROUTE_STORAGE>>, checked |-> FALSE],
       [cmd |-> "SET_ROUTE", args |-> <<20000, CURRENCY, SSP_OPTION_ROUTE_STORAGE>>, checked |-> FALSE],
       [cmd |-> "SET_ROUTE", args |-> <<50000, CURRENCY, SSP_OPTION_ROUTE_STORAGE>>, checked |-> FALSE],
       [cmd |-> "SET_INHIBITS", args |-> <<0, 0>>, checked |-> TRUE],
       [cmd |-> "ENABLE_PAYOUT", args |-> <<unitType>>, checked |-> TRUE] >>

\* setup(): validator configuration, one exchange per step
configureValidator(resp) ==
    /\ pc = "configureValidator"
    /\ LET sequence == ValidatorSequence(sspSetupReq[Validator].UnitType)
           s == sequence[step]
           ok == resp = SSP_RESPONSE_OK
       IN /\ Did("configureValidator", <<Exchange(Validator, s.cmd, s.args, resp)>>, <<>>)
          \* channelInhibits = 0x0 is assigned before the SET_INHIBITS exchange
          /\ channelInhibits' = IF s.cmd = "SET_INHIBITS"
                                THEN [channelInhibits EXCEPT ![Validator] = 0]
                                ELSE channelInhibits
          /\ IF s.checked /\ ~ok
             THEN \* return from setup(): evPoll is never installed
                  /\ pc' = "started"
                  /\ step' = 1
             ELSE IF step = Len(sequence)
             THEN /\ pc' = "installPoll"
                  /\ step' = 1
             ELSE /\ pc' = pc
                  /\ step' = step + 1
    /\ NoRequestNow
    /\ UNCHANGED <<exitCode, sspAvailable, acceptCoins, receivedSignal, evPollInstalled,
                   sspDeviceAvailable, sspSetupReq, uuidClock, tick>>

\* setup(): the poll timer, its last statement
installPoll ==
    /\ pc = "installPoll"
    /\ evPollInstalled' = TRUE
    /\ pc' = "started"
    /\ Did("installPoll", <<>>, <<>>)
    /\ NoRequestNow
    /\ UNCHANGED <<step, exitCode, sspAvailable, acceptCoins, receivedSignal,
                   sspDeviceAvailable, channelInhibits, sspSetupReq, uuidClock, tick>>

\* main(): publishPayoutEvent("started"), then event_base_dispatch
publishStarted ==
    /\ pc = "started"
    /\ pc' = "loop"
    /\ Did("started", <<>>, <<PayoutEvent("started")>>)
    /\ NoRequestNow
    /\ UNCHANGED <<step, exitCode, sspAvailable, acceptCoins, receivedSignal,
                   evPollInstalled, sspDeviceAvailable, channelInhibits, sspSetupReq,
                   uuidClock, tick>>

\* hardwareWaitTime: the dwell the request callback and mcSspPollDevice
\* begin with, before they touch the bus
hardwareWaitTime ==
    /\ pc = "loop"
    /\ last # "wait"
    \* a new callback starts once the loop has written what the last one queued
    /\ tick = "idle" => ~unsent
    /\ Did("wait", <<>>, <<>>)
    /\ NoRequestNow
    /\ UNCHANGED <<pc, step, exitCode, sspAvailable, acceptCoins, receivedSignal,
                   evPollInstalled, sspDeviceAvailable, channelInhibits, sspSetupReq,
                   uuidClock, tick>>

\* the write event of the redis context, handled by event_base_dispatch: the
\* queued commands go out
redisWrite ==
    /\ pc = "loop"
    /\ tick = "idle"
    /\ unsent
    /\ unsent' = FALSE
    /\ last' = "write"
    /\ exch' = <<>>
    /\ pub' = <<>>
    /\ NoRequestNow
    /\ UNCHANGED <<pc, step, exitCode, sspAvailable, acceptCoins, receivedSignal,
                   evPollInstalled, sspDeviceAvailable, channelInhibits, sspSetupReq,
                   uuidClock, tick, session>>

\* the check of sspAvailable left out
sspUnavailable_Never == FALSE
\* metacash->sspAvailable == 0: the serial device was not opened
sspUnavailable == sspAvailable = 0

\* the dwell is over
Waited == pc = "loop" /\ last = "wait"

\* a callback starts whatever another callback is doing
ReactorIdle_Always == TRUE
\* event_base_dispatch runs one callback at a time: the next one starts when
\* the poll tick, if one is running, has returned
ReactorIdle == tick = "idle"

\* cbOnCheckQuitEvent: the 500 ms tick
cbOnCheckQuitEvent ==
    /\ pc = "loop"
    /\ ReactorIdle
    /\ IF receivedSignal # 0
       THEN /\ pc' = "exiting"      \* event_base_loopexit
            /\ receivedSignal' = 0
       ELSE UNCHANGED <<pc, receivedSignal>>
    /\ Did("checkQuit", <<>>, <<>>)
    /\ NoRequestNow
    /\ UNCHANGED <<step, exitCode, sspAvailable, acceptCoins, evPollInstalled,
                   sspDeviceAvailable, channelInhibits, sspSetupReq, uuidClock, tick>>

\* main() after event_base_dispatch returned: publish "exiting", clean up, return 0
publishExiting ==
    /\ pc = "exiting"
    /\ pc' = "done"
    /\ exitCode' = 0
    /\ Did("exiting", <<>>, <<PayoutEvent("exiting")>>)
    /\ NoRequestNow
    /\ UNCHANGED <<step, sspAvailable, acceptCoins, receivedSignal, evPollInstalled,
                   sspDeviceAvailable, channelInhibits, sspSetupReq, uuidClock, tick>>

(***************************************************************************)
(* Polled events and the two event handlers.                               *)
(***************************************************************************)
\* one entry of SSP_POLL_DATA6.events: the event and its data values
Event(name, data1, data2) == [event |-> name, data1 |-> data1, data2 |-> data2]

\* the error codes of a calibration-fail event
NO_FAILUE == 0
SENSOR_FLAP == 1
SENSOR_EXIT == 2
SENSOR_COIL1 == 3
SENSOR_COIL2 == 4
NOT_INITIALISED == 5
CHECKSUM_ERROR == 6
COMMAND_RECAL == 7

EventMessage(dev, keys, text, i) ==
    [Message(EventTopic(dev), keys, "", "", text) EXCEPT !.src = i]

\* the inner switch of SSP_POLL_CALIBRATION_FAIL: the error text, "" for
\* COMMAND_RECAL; codes it has no case for publish nothing
CalibrationError(code) ==
    CASE code = NO_FAILUE -> <<"no error">>
      [] code = SENSOR_FLAP -> <<"sensor flap">>
      [] code = SENSOR_EXIT -> <<"sensor exit">>
      [] code = SENSOR_COIL1 -> <<"sensor coil 1">>
      [] code = SENSOR_COIL2 -> <<"sensor coil 2">>
      [] code = NOT_INITIALISED -> <<"not initialized">>
      [] code = CHECKSUM_ERROR -> <<"checksum error">>
      [] code = COMMAND_RECAL -> <<"">>
      [] OTHER -> <<>>

\* the recalibration is announced and never run
CalibrationFail_NoRun(dev, e, i) ==
    [msgs |-> <<EventMessage(dev, {"event"}, "recalibrating", i)>>,
     cmd |-> "", args |-> <<>>]
CalibrationFail(dev, e, i) ==
    LET err == CalibrationError(e.data1)
    IN IF err = <<>> THEN [msgs |-> <<>>, cmd |-> "", args |-> <<>>]
       ELSE IF e.data1 = COMMAND_RECAL
       THEN [msgs |-> <<EventMessage(dev, {"event"}, "recalibrating", i)>>,
             cmd |-> "RUN_CALIBRATION", args |-> <<>>]
       ELSE [msgs |-> <<EventMessage(dev, {"event", "error"},
                                     "calibration fail: " \o err[1], i)>>,
             cmd |-> "", args |-> <<>>]

\* an event that is published and needs no exchange
Publishes(dev, keys, text, i) ==
    [msgs |-> <<EventMessage(dev, keys, text, i)>>, cmd |-> "", args |-> <<>>]

\* the reset is announced and the protocol version left as it is
UnitReset_NoPin(dev, i) == Publishes(dev, {"event"}, "unit reset", i)
UnitReset(dev, i) ==
    [msgs |-> <<EventMessage(dev, {"event"}, "unit reset", i)>>,
     cmd |-> "HOST_PROTOCOL", args |-> <<6>>]

\* one iteration of the switch of hopperEventHandler on batch entry i
hopperEvent(e, i) ==
    LET ev == e.event
        amountCc == {"event", "amount", "cc"}
        WithAmount(text) ==
            [msgs |-> <<[EventMessage(Hopper, amountCc, text, i)
                           EXCEPT !.amount = e.data1]>>,
             cmd |-> "", args |-> <<>>]
    IN CASE ev = "RESET" -> UnitReset(Hopper, i)
         [] ev = "READ" ->
              IF e.data1 > 0
              THEN [msgs |-> <<[EventMessage(Hopper, {"event", "channel"}, "read", i)
                                  EXCEPT !.channel = e.data1]>>,
                    cmd |-> "", args |-> <<>>]
              ELSE Publishes(Hopper, {"event"}, "reading", i)
         [] ev = "TIMEOUT" -> WithAmount("timeout")
         [] ev = "DISPENSING" ->
              [msgs |-> <<[EventMessage(Hopper, {"event", "amount"}, "dispensing", i)
                             EXCEPT !.amount = e.data1]>>, cmd |-> "", args |-> <<>>]
         [] ev = "DISPENSED" ->
              [msgs |-> <<[EventMessage(Hopper, {"event", "amount"}, "dispensed", i)
                             EXCEPT !.amount = e.data1]>>, cmd |-> "", args |-> <<>>]
         [] ev = "FLOATING" -> WithAmount("floating")
         [] ev = "FLOATED" -> WithAmount("floated")
         [] ev = "CASHBOX_PAID" -> WithAmount("cashbox paid")
         [] ev = "JAMMED" -> Publishes(Hopper, {"event"}, "jammed", i)
         [] ev = "FRAUD_ATTEMPT" -> Publishes(Hopper, {"event"}, "fraud attempt", i)
         [] ev = "COIN_CREDIT" -> WithAmount("coin credit")
         [] ev = "EMPTY" -> Publishes(Hopper, {"event"}, "empty", i)
         [] ev = "EMPTYING" -> Publishes(Hopper, {"event"}, "emptying", i)
         [] ev = "SMART_EMPTYING" -> WithAmount("smart emptying")
         [] ev = "SMART_EMPTIED" -> WithAmount("smart emptied")
         [] ev = "CREDIT" ->
              [msgs |-> <<[EventMessage(Hopper, {"event", "channel", "cc"}, "credit", i)
                             EXCEPT !.channel = e.data1]>>, cmd |-> "", args |-> <<>>]
         [] ev = "INCOMPLETE_PAYOUT" ->
              Publishes(Hopper, {"event", "dispensed", "requested", "cc"},
                        "incomplete payout", i)
         [] ev = "INCOMPLETE_FLOAT" ->
              Publishes(Hopper, {"event", "dispensed", "requested", "cc"},
                        "incomplete float", i)
         [] ev = "DISABLED" -> Publishes(Hopper, {"event"}, "disabled", i)
         [] ev = "CALIBRATION_FAIL" -> CalibrationFail(Hopper, e, i)
         [] OTHER -> Publishes(Hopper, {"event", "id"}, "unknown", i)

\* sspSetupReq.ChannelData[data1 - 1].value * 100; an index outside the
\* table reads whatever lies there (junk)
NoteAmount(table, data1, junk) ==
    IF data1 \in 1..Len(table) THEN table[data1] * 100 ELSE junk * 100

\* one iteration of the switch of validatorEventHandler on batch entry i
validatorEvent(e, i, table, junk) ==
    LET ev == e.event
        Plain(text) == Publishes(Validator, {"event"}, text, i)
        Note(text) ==
            [msgs |-> <<[EventMessage(Validator, {"event", "amount", "channel"}, text, i)
                           EXCEPT !.amount = NoteAmount(table, e.data1, junk),
                                  !.channel = e.data1]>>,
             cmd |-> "", args |-> <<>>]
    IN CASE ev = "RESET" -> UnitReset(Validator, i)
         [] ev = "READ" -> IF e.data1 > 0 THEN Note("read") ELSE Plain("reading")
         [] ev = "EMPTY" -> Plain("empty")
         [] ev = "EMPTYING" -> Plain("emptying")
         [] ev = "SMART_EMPTYING" -> Plain("smart emptying")
         [] ev = "TIMEOUT" ->
              [msgs |-> <<[EventMessage(Validator, {"event", "amount", "cc"}, "timeout", i)
                             EXCEPT !.amount = e.data1]>>, cmd |-> "", args |-> <<>>]
         [] ev = "CREDIT" -> Note("credit")
         [] ev = "INCOMPLETE_PAYOUT" ->
              Publishes(Validator, {"event", "dispensed", "requested", "cc"},
                        "incomplete payout", i)
         [] ev = "INCOMPLETE_FLOAT" ->
              Publishes(Validator, {"event", "dispensed", "requested", "cc"},
                        "incomplete float", i)
         [] ev = "REJECTING" -> Plain("rejecting")
         [] ev = "REJECTED" -> Plain("rejected")
         [] ev = "STACKING" -> Plain("stacking")
         [] ev = "STORED" -> Plain("stored")
         [] ev = "STACKED" -> Plain("stacked")
         [] ev = "SAFE_JAM" -> Plain("safe jam")
         [] ev = "UNSAFE_JAM" -> Plain("unsafe jam")
         [] ev = "DISABLED" -> Plain("disabled")
         [] ev = "FRAUD_ATTEMPT" ->
              Publishes(Validator, {"event", "dispensed"}, "fraud attempt", i)
         [] ev = "STACKER_FULL" -> Plain("stacker full")
         [] ev = "CASH_BOX_REMOVED" -> Plain("cashbox removed")
         [] ev = "CASH_BOX_REPLACED" -> Plain("cashbox replaced")
         [] ev = "CLEARED_FROM_FRONT" -> Plain("cleared from front")
         [] ev = "CLEARED_INTO_CASHBOX" -> Plain("cleared into cashbox")
         [] ev = "CALIBRATION_FAIL" -> CalibrationFail(Validator, e, i)
         [] OTHER -> Publishes(Validator, {"event", "id"}, "unknown", i)

\* device->eventHandlerFn
eventHandlerFn(dev, e, i, table, junk) ==
    IF dev = Hopper THEN hopperEvent(e, i) ELSE validatorEvent(e, i, table, junk)

\* the batch positions in the order the handlers' for loop visits them
EventOrder_Reversed(n) == [k \in 1..n |-> n + 1 - k]
EventOrder(n) == [k \in 1..n |-> k]

\* the for loop of a handler from position k of its visiting order on: the
\* exchanges and publications in order, and whether die() ended the process.
\* answers[i] is the peer's answer to the exchange event i causes, if it
\* causes one.
RECURSIVE HandleEvents(_, _, _, _, _, _, _)
HandleEvents(dev, batch, answers, table, junk, order, k) ==
    IF k > Len(order) THEN [exch |-> <<>>, pub |-> <<>>, died |-> FALSE]
    ELSE LET i == order[k]
             h == eventHandlerFn(dev, batch[i], i, table, junk)
             ex == IF h.cmd = "" THEN <<>>
                   ELSE <<Exchange(dev, h.cmd, h.args, answers[i])>>
         IN IF h.cmd = "HOST_PROTOCOL" /\ answers[i] # SSP_RESPONSE_OK
            THEN [exch |-> ex, pub |-> h.msgs, died |-> TRUE]
            ELSE LET rest == HandleEvents(dev, batch, answers, table, junk, order, k + 1)
                 IN [exch |-> ex \o rest.exch, pub |-> h.msgs \o rest.pub,
                     died |-> rest.died]

(***************************************************************************)
(* The poll tick.                                                          *)
(***************************************************************************)
\* the events a peer may report in the model
PollEvents(dev) ==
    IF dev = Hopper
    THEN {Event("RESET", 0, 0), Event("COIN_CREDIT", 100, 0),
          Event("CALIBRATION_FAIL", COMMAND_RECAL, 0),
          Event("CALIBRATION_FAIL", SENSOR_FLAP, 0)}
    ELSE {Event("RESET", 0, 0), Event("READ", 2, 0), Event("CREDIT", 2, 0),
          Event("STACKED", 0, 0)}

\* a calibration-fail code the inner switch has no case for
UnknownCalibrationCode == 8

\* the same with every channel byte a note event may carry (0, inside the
\* channel table, above a table of two channels) and calibration failures
\* of both peers
AllPollEvents(dev) ==
    IF dev = Hopper
    THEN PollEvents(Hopper)
         \cup {Event("CALIBRATION_FAIL", UnknownCalibrationCode, 0)}
    ELSE PollEvents(Validator)
         \cup {Event("READ", 0, 0), Event("READ", 3, 0), Event("CREDIT", 0, 0),
               Event("CALIBRATION_FAIL", COMMAND_RECAL, 0),
               Event("CALIBRATION_FAIL", SENSOR_FLAP, 0),
               Event("CALIBRATION_FAIL", UnknownCalibrationCode, 0)}

\* the batches of at most n events out of a set
Batches(events, n) == UNION {[1..k -> events] : k \in 0..n}

\* whether the handler of dev answers event e with an exchange
CausesExchange(dev, e) == eventHandlerFn(dev, e, 1, <<>>, 0).cmd # ""

\* the peer's answers to the exchanges a batch causes, by batch position
HandlerAnswers == {SSP_RESPONSE_OK, SSP_RESPONSE_FAILURE}
Answers(dev, batch) ==
    {a \in [1..Len(batch) -> HandlerAnswers] :
        \A i \in 1..Len(batch) :
            ~CausesExchange(dev, batch[i]) => a[i] = SSP_RESPONSE_OK}

\* what a read outside the channel table may find
JunkValues == {0, 3}
Junk(dev, batch, table) ==
    IF \E i \in 1..Len(batch) :
          /\ dev = Validator
          \* a READ with channel 0 reads nothing, a CREDIT with channel 0
          \* reads the entry before the table
          /\ \/ batch[i].event = "READ" /\ batch[i].data1 \notin 0..Len(table)
             \/ batch[i].event = "CREDIT" /\ batch[i].data1 \notin 1..Len(table)
    THEN JunkValues ELSE {0}

\* a POLL that timed out sent once more
mcSspPollDevice_Retry(dev, events) ==
    \E resp \in Outcomes :
        /\ Did("poll:" \o dev,
               <<Exchange(dev, "POLL", <<>>, SSP_RESPONSE_TIMEOUT),
                 Exchange(dev, "POLL", <<>>, resp)>>, <<>>)
        /\ UNCHANGED <<pc, exitCode>>
\* mcSspPollDevice(device): POLL, then the negotiation or the event handler
mcSspPollDevice(dev, events) ==
    \E resp \in Outcomes :
        LET poll(r) == Exchange(dev, "POLL", <<>>, r)
            what == "poll:" \o dev
        IN IF resp = SSP_RESPONSE_TIMEOUT
           THEN /\ Did(what, <<poll(resp)>>, <<>>)
                /\ UNCHANGED <<pc, exitCode>>
           ELSE IF resp = SSP_RESPONSE_KEY_NOT_SET
           THEN \E negotiated \in Outcomes :
                    /\ Did(what, <<poll(resp),
                                   Exchange(dev, "SETUP_ENCRYPTION", <<>>, negotiated)>>,
                           <<>>)
                    /\ UNCHANGED <<pc, exitCode>>
           ELSE IF resp # SSP_RESPONSE_OK
           THEN /\ Did(what, <<poll(resp)>>, <<>>)
                /\ UNCHANGED <<pc, exitCode>>
           ELSE \E batch \in Batches(events, MaxEvents) :
                \E answers \in Answers(dev, batch),
                   junk \in Junk(dev, batch, sspSetupReq[dev].ChannelData) :
                    LET h == HandleEvents(dev, batch, answers,
                                          sspSetupReq[dev].ChannelData, junk,
                                          EventOrder(Len(batch)), 1)
                    \* the events are the data of the POLL response
                    IN /\ Did(what, <<[poll(resp) EXCEPT !.data = batch]>> \o h.exch,
                              h.pub)
                       /\ IF h.died THEN die(3) ELSE UNCHANGED <<pc, exitCode>>

\* cbOnPollEvent: the 1 s tick; tick = "idle" is its entry and the hopper's
\* turn, tick = "validator" the validator's turn; the peer reports events out
\* of AllPollEvents when anyEvent, out of PollEvents otherwise
cbOnPollEvent(anyEvent) ==
    /\ pc = "loop"
    /\ evPollInstalled
    /\ LET dev == IF tick = "idle" THEN Hopper ELSE Validator
       IN IF sspUnavailable
          THEN \* return immediately
               /\ tick' = "idle"
               /\ Did("poll", <<>>, <<>>)
               /\ UNCHANGED <<pc, exitCode>>
          ELSE /\ tick' = (IF tick = "idle" THEN "validator" ELSE "idle")
               /\ IF sspDeviceAvailable[dev] # 0
                  THEN Waited /\ mcSspPollDevice(dev, IF anyEvent THEN AllPollEvents(dev)
                                                                   ELSE PollEvents(dev))
                  ELSE /\ Did("poll", <<>>, <<>>)
                       /\ UNCHANGED <<pc, exitCode>>
    /\ NoRequestNow
    /\ UNCHANGED <<step, sspAvailable, acceptCoins, receivedSignal, evPollInstalled,
                   sspDeviceAvailable, channelInhibits, sspSetupReq, uuidClock>>

(***************************************************************************)
(* Requests: the JSON payload and struct m_command.                        *)
(***************************************************************************)
\* a member of the JSON object: a string, an integer, or absent / of
\* another type
\* (s: a string compared as a whole; cs: a string searched by character;
\* an integer is the 64-bit json_int_t of value n + wraps * 2^32, with n an int)
String(s) == [t |-> "str", s |-> s, cs |-> <<>>, n |-> 0, wraps |-> 0]
Chars(cs) == [t |-> "str", s |-> "", cs |-> cs, n |-> 0, wraps |-> 0]
Integer(n) == [t |-> "int", s |-> "", cs |-> <<>>, n |-> n, wraps |-> 0]
Wide(wraps, n) == [t |-> "int", s |-> "", cs |-> <<>>, n |-> n, wraps |-> wraps]
Absent == [t |-> "none", s |-> "", cs |-> <<>>, n |-> 0, wraps |-> 0]
json_is_string(p) == p.t = "str"
json_is_integer(p) == p.t = "int"
\* int x = json_integer_value(p): the conversion to int keeps the low 32 bits
json_integer_value(p) == p.n
\* a parser that accepts any text
json_loads_Lax(payload) == TRUE
\* json_loads(message, 0, &error): whether the text parses
json_loads(payload) == payload.kind # "malformed"

\* the members the handlers look at
Members == {"msgId", "cmd", "channels", "amount", "level", "r", "g", "b", "type"}
\* a JSON object with the given msgId and cmd and nothing else
Object(msgId, command) ==
    [kind |-> "object",
     m |-> [k \in Members |-> IF k = "msgId" THEN msgId
                              ELSE IF k = "cmd" THEN command ELSE Absent]]
With(payload, member, value) == [payload EXCEPT !.m[member] = value]
\* text json_loads rejects; JSON that is an array (json_object_get finds nothing)
Malformed == [kind |-> "malformed", m |-> [k \in Members |-> Absent]]
Array == [kind |-> "array", m |-> [k \in Members |-> Absent]]
\* json_object_get(cmd->jsonMessage, member)
json_object_get(payload, member) ==
    IF payload.kind = "object" THEN payload.m[member] ELSE Absent

\* uuid_generate_time_safe + uuid_unparse_lower: the n-th id generated
Uuid(n) == "uuid-" \o ToString(n)

isCommand(c, command) == c.command = Ptr(command)

(***************************************************************************)
(* Replies.                                                                *)
(***************************************************************************)
replyWithPropertyError(c, name) ==
    Message(c.responseTopic, {"msgId", "correlId", "error"},
            IF c.msgId # NULL THEN c.msgId[1] ELSE "unknown",
            IF c.correlId # NULL THEN c.correlId[1] ELSE "unknown",
            "Property '" \o name \o "' missing or of wrong type")

\* the switch of replyWithSspResponse
SspErrorMsg(response) ==
    CASE response = SSP_RESPONSE_UNKNOWN_COMMAND -> "unknown command"
      [] response = SSP_RESPONSE_INCORRECT_PARAMETERS -> "incorrect parameters"
      [] response = SSP_RESPONSE_INVALID_PARAMETER -> "invalid parameter"
      [] response = SSP_RESPONSE_COMMAND_NOT_PROCESSED -> "command not processed"
      [] response = SSP_RESPONSE_SOFTWARE_ERROR -> "software error"
      [] response = SSP_RESPONSE_CHECKSUM_ERROR -> "checksum error"
      [] response = SSP_RESPONSE_FAILURE -> "failure"
      [] response = SSP_RESPONSE_HEADER_FAILURE -> "header failure"
      [] response = SSP_RESPONSE_KEY_NOT_SET -> "key not set"
      [] response = SSP_RESPONSE_TIMEOUT -> "timeout"
      [] OTHER -> "unknown"

replyWithSspResponse(c, response) ==
    IF response = SSP_RESPONSE_OK
    THEN Message(c.responseTopic, {"msgId", "correlId", "result"},
                 c.msgId[1], c.correlId[1], "ok")
    ELSE Message(c.responseTopic, {"msgId", "correlId", "sspError"},
                 c.msgId[1], c.correlId[1], SspErrorMsg(response))

\* replyWith(cmd->responseTopic, "{\"correlId\":...,<member>:...}")
replyWithCorrelId(c, member, text) ==
    Message(c.responseTopic, {"correlId"} \cup member, "", c.correlId[1], text)

(***************************************************************************)
(* The command handlers.  Each is the whole handler: its exchanges, the    *)
(* peer's answers, its reply and what it writes to the device record.      *)
(***************************************************************************)
Handled(exchanges, messages, inhibits, signal) ==
    /\ Did("request", exchanges, messages)
    /\ channelInhibits' = inhibits
    /\ receivedSignal' = signal

Replied(exchanges, messages) ==
    Handled(exchanges, messages, channelInhibits, receivedSignal)

\* handlers of the shape replyWithSspResponse(cmd, <one exchange>)
OneExchange(c, name, args) ==
    \E resp \in Outcomes :
        Replied(<<Exchange(c.device, name, args, resp)>>,
                <<replyWithSspResponse(c, resp)>>)

\* quit answered and the flag left alone
handleQuit_NoFlag(c) ==
    Handled(<<>>, <<replyWithSspResponse(c, SSP_RESPONSE_OK)>>, channelInhibits,
            receivedSignal)
handleQuit(c) ==
    Handled(<<>>, <<replyWithSspResponse(c, SSP_RESPONSE_OK)>>, channelInhibits, 1)

handleTest(c) == Replied(<<>>, <<replyWithSspResponse(c, SSP_RESPONSE_OK)>>)

handleEmpty(c) == OneExchange(c, "EMPTY", <<>>)
handleSmartEmpty(c) == OneExchange(c, "SMART_EMPTY", <<>>)
handleEnable(c) == OneExchange(c, "ENABLE", <<>>)
handleDisable(c) == OneExchange(c, "DISABLE", <<>>)

\* the reason byte of a COMMAND_NOT_PROCESSED answer to payout or float
ReasonBytes == {1, 2, 3, 4, 9}
\* the switch on the reason byte reduced to its default
PayoutError_Unknown(reason) == "unknown"
PayoutError(reason) ==
    CASE reason = 1 -> "not enough value in smart payout"
      [] reason = 2 -> "can't pay exact amount"
      [] reason = 3 -> "smart payout busy"
      [] reason = 4 -> "smart payout disabled"
      [] OTHER -> "unknown"

\* the common body of handlePayout and handleFloat after the exchange
PayoutReply(c, exchange) ==
    IF exchange.resp = SSP_RESPONSE_COMMAND_NOT_PROCESSED
    THEN \E reason \in ReasonBytes :
            Replied(<<[exchange EXCEPT !.data = <<reason>>]>>,
                    <<replyWithCorrelId(c, {"error"}, PayoutError(reason))>>)
    ELSE Replied(<<exchange>>, <<replyWithSspResponse(c, exchange.resp)>>)

handlePayout(c, json) ==
    LET payoutOption == IF isCommand(c, "do-payout") THEN SSP6_OPTION_BYTE_DO
                        ELSE SSP6_OPTION_BYTE_TEST
        jAmount == json_object_get(json, "amount")
    IN IF ~json_is_integer(jAmount)
       THEN Replied(<<>>, <<replyWithPropertyError(c, "amount")>>)
       ELSE \E resp \in Outcomes :
               PayoutReply(c, Exchange(c.device, "PAYOUT",
                                       <<json_integer_value(jAmount), payoutOption>>, resp))

handleFloat(c, json) ==
    LET payoutOption == IF isCommand(c, "do-float") THEN SSP6_OPTION_BYTE_DO
                        ELSE SSP6_OPTION_BYTE_TEST
        jAmount == json_object_get(json, "amount")
    IN IF ~json_is_integer(jAmount)
       THEN Replied(<<>>, <<replyWithPropertyError(c, "amount")>>)
       ELSE \E resp \in Outcomes :
               \* mc_ssp_float: minimum payout 100, then the value and the option
               PayoutReply(c, Exchange(c.device, "FLOAT",
                                       <<100, json_integer_value(jAmount), payoutOption>>, resp))

\* strstr(channels, "<digit>") != NULL
strstr(channels, digit) == \E i \in 1..Len(channels) : channels[i] = digit
Digits == <<"1", "2", "3", "4", "5", "6", "7", "8">>

\* currentChannelInhibits |= 1 << (d-1) for each channel d named
RECURSIVE EnableBits(_, _, _)
EnableBits(mask, channels, d) ==
    IF d > 8 THEN mask
    ELSE EnableBits(IF strstr(channels, Digits[d]) THEN BitSet(mask, d - 1) ELSE mask,
                    channels, d + 1)

\* currentChannelInhibits &= ~(1 << (d-1)) for each channel d named
RECURSIVE DisableBits(_, _, _)
DisableBits(mask, channels, d) ==
    IF d > 8 THEN mask
    ELSE DisableBits(IF strstr(channels, Digits[d]) THEN BitClear(mask, d - 1) ELSE mask,
                     channels, d + 1)

\* the common tail of handleEnableChannels and handleDisableChannels:
\* send the mask with high byte 0xFF, keep it when the peer says OK
SetChannelInhibits(c, currentChannelInhibits) ==
    \E resp \in Outcomes :
        Handled(<<Exchange(c.device, "SET_INHIBITS",
                           <<currentChannelInhibits, 255>>, resp)>>,
                <<replyWithSspResponse(c, resp)>>,
                IF resp = SSP_RESPONSE_OK
                THEN [channelInhibits EXCEPT ![c.device] = currentChannelInhibits]
                ELSE channelInhibits,
                receivedSignal)

handleEnableChannels(c, json) ==
    LET jChannels == json_object_get(json, "channels")
    IN IF ~json_is_string(jChannels)
       THEN Replied(<<>>, <<replyWithPropertyError(c, "channels")>>)
       ELSE SetChannelInhibits(c, EnableBits(channelInhibits[c.device], jChannels.cs, 1))

handleDisableChannels(c, json) ==
    LET jChannels == json_object_get(json, "channels")
    IN IF ~json_is_string(jChannels)
       THEN Replied(<<>>, <<replyWithPropertyError(c, "channels")>>)
       ELSE SetChannelInhibits(c, DisableBits(channelInhibits[c.device], jChannels.cs, 1))

\* inhibit-channels done as disable-channels: from the persisted mask, and
\* persisting the result
handleInhibitChannels_Stateful(c, json) == handleDisableChannels(c, json)
handleInhibitChannels(c, json) ==
    LET jChannels == json_object_get(json, "channels")
    IN IF ~json_is_string(jChannels)
       THEN Replied(<<>>, <<replyWithPropertyError(c, "channels")>>)
       ELSE OneExchange(c, "SET_INHIBITS", <<DisableBits(255, jChannels.cs, 1), 255>>)

\* the little-endian fields of mc_ssp_set_denomination_level and
\* mc_ssp_set_cashbox_payout_limit: two bytes keep the low 16 bits; the
\* four-byte field holds every non-negative int unchanged
TwoBytes(v) == v % 65536
FourBytes(v) == v

mc_ssp_set_denomination_level(dev, amount, level, resp) ==
    Exchange(dev, "SET_DENOMINATION_LEVEL",
             <<TwoBytes(level), FourBytes(amount), CURRENCY>>, resp)

\* the amount looked at before the level
handleSetDenominationLevels_AmountFirst(c, json) ==
    LET jLevel == json_object_get(json, "level")
        jAmount == json_object_get(json, "amount")
    IN IF ~json_is_integer(jAmount)
       THEN Replied(<<>>, <<replyWithPropertyError(c, "amount")>>)
       ELSE IF ~json_is_integer(jLevel)
       THEN Replied(<<>>, <<replyWithPropertyError(c, "level")>>)
       ELSE \E resp \in Outcomes :
               Replied(<<mc_ssp_set_denomination_level(c.device, json_integer_value(jAmount), json_integer_value(jLevel), resp)>>,
                       <<replyWithSspResponse(c, resp)>>)
handleSetDenominationLevels(c, json) ==
    LET jLevel == json_object_get(json, "level")
        jAmount == json_object_get(json, "amount")
    IN IF ~json_is_integer(jLevel)
       THEN Replied(<<>>, <<replyWithPropertyError(c, "level")>>)
       ELSE IF ~json_is_integer(jAmount)
       THEN Replied(<<>>, <<replyWithPropertyError(c, "amount")>>)
       ELSE IF json_integer_value(jLevel) > 0
       THEN \E ignored \in Outcomes, resp \in Outcomes :
               Replied(<<mc_ssp_set_denomination_level(c.device, json_integer_value(jAmount), 0, ignored),
                         mc_ssp_set_denomination_level(c.device, json_integer_value(jAmount), json_integer_value(jLevel), resp)>>,
                       <<replyWithSspResponse(c, resp)>>)
       ELSE \E resp \in Outcomes :
               Replied(<<mc_ssp_set_denomination_level(c.device, json_integer_value(jAmount), json_integer_value(jLevel), resp)>>,
                       <<replyWithSspResponse(c, resp)>>)

handleSetCashboxPayoutLimit(c, json) ==
    LET jLevel == json_object_get(json, "level")
        jAmount == json_object_get(json, "amount")
    IN IF ~json_is_integer(jLevel)
       THEN Replied(<<>>, <<replyWithPropertyError(c, "level")>>)
       ELSE IF ~json_is_integer(jAmount)
       THEN Replied(<<>>, <<replyWithPropertyError(c, "amount")>>)
       \* mc_ssp_set_cashbox_payout_limit(sspC, limit = level, denomination = amount, cc)
       ELSE OneExchange(c, "SET_CASHBOX_PAYOUT_LIMIT",
                        <<1, TwoBytes(json_integer_value(jLevel)), FourBytes(json_integer_value(jAmount)), CURRENCY>>)

\* handlers that answer OK with data read from the response and anything
\* else through replyWithSspResponse
DataReply(c, name, member) ==
    \E resp \in Outcomes :
        Replied(<<Exchange(c.device, name, <<>>, resp)>>,
                <<IF resp = SSP_RESPONSE_OK
                  THEN replyWithCorrelId(c, member, "")
                  ELSE replyWithSspResponse(c, resp)>>)

(***************************************************************************)
(* Counter reports: the response data after the response code is the       *)
(* number of counters, then 9 bytes per counter (level, value, country     *)
(* code), and for the cashbox payout operation 3 bytes more.               *)
(***************************************************************************)
\* counters in one response
MaxCounters == 2
\* the characters of the country codes the peers use
Chr(byte) ==
    CASE byte = 69 -> "E" [] byte = 85 -> "U" [] byte = 82 -> "R" [] OTHER -> "?"
\* the records a peer may report: level 258 of value 200, level 0 of value 10000
CounterRecords ==
    {<<2, 1, 200, 0, 0, 0, 69, 85, 82>>, <<0, 0, 16, 39, 0, 0, 69, 85, 82>>}
\* the quantity of unknown coins a peer may report: 0 and 259
QtyUnknownBytes == {<<0, 0, 0>>, <<3, 1, 0>>}

RECURSIVE Flatten(_)
Flatten(seqs) == IF seqs = <<>> THEN <<>> ELSE Head(seqs) \o Flatten(Tail(seqs))
\* ResponseData[1..] of an OK answer to GET_ALL_LEVELS
LevelsData ==
    UNION {{<<n>> \o Flatten(recs) : recs \in [1..n -> CounterRecords]} :
              n \in 0..MaxCounters}
\* ResponseData[1..] of an OK answer to CASHBOX_PAYOUT_OPERATION_DATA
CashboxData == {counters \o qty : counters \in LevelsData, qty \in QtyUnknownBytes}

\* the shift left out: the bytes are added up
RECURSIVE LittleEndian_Sum(_, _, _)
LittleEndian_Sum(data, i, count) ==
    IF count = 0 THEN 0
    ELSE data[i + 1] + LittleEndian_Sum(data, i + 1, count - 1)
\* x += ResponseData[i] << (8 * k) for k = 0..count-1, i the index before the
\* first byte
RECURSIVE LittleEndian(_, _, _)
LittleEndian(data, i, count) ==
    IF count = 0 THEN 0
    ELSE data[i + 1] + 256 * LittleEndian(data, i + 1, count - 1)

\* what the string buffer receives: a "," or one JSON object
Separator == [t |-> ",", keys |-> {}, value |-> 0, level |-> 0, cc |-> ""]
Counter(value, level, cc) ==
    [t |-> "{}", keys |-> {"value", "level", "cc"}, value |-> value, level |-> level,
     cc |-> cc]
Unknown(qty) ==
    [t |-> "{}", keys |-> {"value", "level"}, value |-> 0, level |-> qty, cc |-> ""]

\* the for loop over the counters, from counter j on (i = 1 + 9 * j is the
\* index of the last byte read)
RECURSIVE CounterLoop(_, _)
CounterLoop(data, j) ==
    IF j >= data[1] THEN <<>>
    ELSE LET i == 1 + 9 * j
             level == LittleEndian(data, i, 2)
             value == LittleEndian(data, i + 2, 4)
             cc == Chr(data[i + 7]) \o Chr(data[i + 8]) \o Chr(data[i + 9])
         IN (IF j > 0 THEN <<Separator>> ELSE <<>>)
            \o <<Counter(value, level, cc)>> \o CounterLoop(data, j + 1)

\* the text mc_ssp_get_all_levels leaves in *json
mc_ssp_get_all_levels(data) == CounterLoop(data, 0)
\* the text mc_ssp_cashbox_payout_operation_data leaves in *json: the
\* counters, then ",{value:0,level:qtyUnknown}"
mc_ssp_cashbox_payout_operation_data(data) ==
    CounterLoop(data, 0)
    \o <<Separator, Unknown(LittleEndian(data, 1 + 9 * data[1], 3))>>

\* the common shape of handleGetAllLevels and
\* handleCashboxPayoutOperationData: "levels":[<json>] on OK; parsed is the
\* set of response data the peer may send, each with the text parsed from it
LevelsReply(c, name, parsed) ==
    \E resp \in Outcomes :
        IF resp = SSP_RESPONSE_OK
        THEN \E r \in parsed :
                Replied(<<[Exchange(c.device, name, <<>>, resp) EXCEPT !.data = r.data]>>,
                        <<[replyWithCorrelId(c, {"levels"}, "")
                             EXCEPT !.body = r.json]>>)
        ELSE Replied(<<Exchange(c.device, name, <<>>, resp)>>,
                     <<replyWithSspResponse(c, resp)>>)

handleGetAllLevels(c) ==
    LevelsReply(c, "GET_ALL_LEVELS",
                {[data |-> d, json |-> mc_ssp_get_all_levels(d)] : d \in LevelsData})
handleCashboxPayoutOperationData(c) ==
    LevelsReply(c, "CASHBOX_PAYOUT_OPERATION_DATA",
                {[data |-> d, json |-> mc_ssp_cashbox_payout_operation_data(d)] :
                    d \in CashboxData})
handleGetFirmwareVersion(c) == DataReply(c, "GET_FIRMWARE_VERSION", {"version"})
handleGetDatasetVersion(c) == DataReply(c, "GET_DATASET_VERSION", {"version"})
handleLastRejectNote(c) == DataReply(c, "LAST_REJECT_NOTE", {"reason", "code"})

\* the exchange happens, its data is logged, nothing is published
handleChannelSecurityData(c) ==
    \E resp \in Outcomes :
        Replied(<<Exchange(c.device, "CHANNEL_SECURITY_DATA", <<>>, resp)>>, <<>>)

handleConfigureBezel(c, json) ==
    LET jR == json_object_get(json, "r")
        jG == json_object_get(json, "g")
        jB == json_object_get(json, "b")
        jType == json_object_get(json, "type")
    IN IF ~json_is_integer(jR)
       THEN Replied(<<>>, <<replyWithPropertyError(c, "r")>>)
       ELSE IF ~json_is_integer(jG)
       THEN Replied(<<>>, <<replyWithPropertyError(c, "g")>>)
       ELSE IF ~json_is_integer(jB)
       THEN Replied(<<>>, <<replyWithPropertyError(c, "b")>>)
       ELSE IF ~json_is_integer(jType)
       THEN Replied(<<>>, <<replyWithPropertyError(c, "type")>>)
       \* unsigned char r, g, b, type; SSP_OPTION_NON_VOLATILE = 1
       ELSE OneExchange(c, "CONFIGURE_BEZEL",
                        <<json_integer_value(jR) % 256, json_integer_value(jG) % 256, json_integer_value(jB) % 256, 1, json_integer_value(jType) % 256>>)

\* the else-if chain for commands that need the hardware
Dispatch(c, json) ==
    IF isCommand(c, "configure-bezel") THEN handleConfigureBezel(c, json)
    ELSE IF isCommand(c, "empty") THEN handleEmpty(c)
    ELSE IF isCommand(c, "smart-empty") THEN handleSmartEmpty(c)
    ELSE IF isCommand(c, "cashbox-payout-operation-data")
    THEN handleCashboxPayoutOperationData(c)
    ELSE IF isCommand(c, "set-cashbox-payout-limit")
    THEN handleSetCashboxPayoutLimit(c, json)
    ELSE IF isCommand(c, "enable") THEN handleEnable(c)
    ELSE IF isCommand(c, "disable") THEN handleDisable(c)
    ELSE IF isCommand(c, "enable-channels") THEN handleEnableChannels(c, json)
    ELSE IF isCommand(c, "disable-channels") THEN handleDisableChannels(c, json)
    ELSE IF isCommand(c, "inhibit-channels") THEN handleInhibitChannels(c, json)
    ELSE IF isCommand(c, "test-float") \/ isCommand(c, "do-float")
    THEN handleFloat(c, json)
    ELSE IF isCommand(c, "test-payout") \/ isCommand(c, "do-payout")
    THEN handlePayout(c, json)
    ELSE IF isCommand(c, "get-firmware-version") THEN handleGetFirmwareVersion(c)
    ELSE IF isCommand(c, "get-dataset-version") THEN handleGetDatasetVersion(c)
    ELSE IF isCommand(c, "channel-security-data") THEN handleChannelSecurityData(c)
    ELSE IF isCommand(c, "get-all-levels") THEN handleGetAllLevels(c)
    ELSE IF isCommand(c, "set-denomination-level")
    THEN handleSetDenominationLevels(c, json)
    ELSE IF isCommand(c, "last-reject-note") THEN handleLastRejectNote(c)
    ELSE Replied(<<>>, <<replyWithCorrelId(c, {"error", "cmd"}, "unknown command")>>)

\* what the trace keeps of a request: its topic, its msgId and cmd when
\* they are strings, and the members the claims speak of
Request(topic, json) ==
    LET jMsgId == json_object_get(json, "msgId")
        jCmd == json_object_get(json, "cmd")
    IN [topic |-> topic, kind |-> json.kind,
        msgId |-> IF json_is_string(jMsgId) THEN Ptr(jMsgId.s) ELSE NULL,
        command |-> IF json_is_string(jCmd) THEN Ptr(jCmd.s) ELSE NULL,
        channels |-> json_object_get(json, "channels"),
        amount |-> json_object_get(json, "amount"),
        level |-> json_object_get(json, "level"),
        bezel |-> [k \in BezelMembers |-> json_object_get(json, k)]]

\* a message arrives on <dev>-request; json is its payload
cbOnRequestMessage(dev, json) ==
    LET topic == RequestTopic(dev)
        jMsgId == json_object_get(json, "msgId")
        jCmd == json_object_get(json, "cmd")
        c0 == [msgId |-> Ptr(Uuid(uuidClock + 1)), correlId |-> NULL, command |-> NULL,
               responseTopic |-> ResponseTopic(dev), device |-> dev]
        c1 == [c0 EXCEPT !.correlId = Ptr(jMsgId.s)]
        c2 == [c1 EXCEPT !.command = Ptr(jCmd.s)]
    IN /\ Waited
       /\ ReactorIdle
       /\ uuidClock' = uuidClock + 1
       /\ req' = Request(topic, json)
       /\ UNCHANGED <<pc, step, exitCode, sspAvailable, acceptCoins, evPollInstalled,
                      sspDeviceAvailable, sspSetupReq, tick>>
       /\ IF ~json_loads(json)
          THEN /\ cmd' = c0
               /\ Replied(<<>>, <<Message(c0.responseTopic, {"error", "reason", "line"},
                                          "", "", "could not parse json")>>)
          ELSE IF ~json_is_string(jMsgId)
          THEN /\ cmd' = c0
               /\ Replied(<<>>, <<replyWithPropertyError(c0, "msgId")>>)
          ELSE IF ~json_is_string(jCmd)
          THEN /\ cmd' = c1
               /\ Replied(<<>>, <<replyWithPropertyError(c1, "cmd")>>)
          ELSE /\ cmd' = c2
               /\ IF isCommand(c2, "quit") THEN handleQuit(c2)
                  ELSE IF isCommand(c2, "test") THEN handleTest(c2)
                  ELSE IF sspUnavailable
                  THEN Replied(<<>>, <<replyWithCorrelId(c2, {"error"},
                                                         "hardware unavailable")>>)
                  ELSE Dispatch(c2, json)

\* the subscription confirmation redis delivers to the same callback
cbOnSubscribed(dev) ==
    /\ Waited
    /\ ReactorIdle
    /\ Did("subscribed", <<>>, <<>>)
    /\ NoRequestNow
    /\ UNCHANGED <<pc, step, exitCode, sspAvailable, acceptCoins, receivedSignal,
                   evPollInstalled, sspDeviceAvailable, channelInhibits,
                   sspSetupReq, uuidClock, tick>>

(***************************************************************************)
(* The environment: what clients send.                                     *)
(***************************************************************************)
MsgIds == {"m1", "m2"}
\* the commands of the dispatch chain, and one it does not know
Commands ==
    {"quit", "test", "configure-bezel", "empty", "smart-empty",
     "cashbox-payout-operation-data", "set-cashbox-payout-limit", "enable",
     "disable", "enable-channels", "disable-channels", "inhibit-channels",
     "test-float", "do-float", "test-payout", "do-payout",
     "get-firmware-version", "get-dataset-version", "channel-security-data",
     "get-all-levels", "set-denomination-level", "last-reject-note", "frobnicate"}
ChannelStrings == {<<"1", "2">>, <<"2">>, <<"3">>, <<"1", "3", "5">>}
\* levels: 0, a small one, 2^16, 2^32
Levels == {Integer(0), Integer(2), Integer(65536), Wide(1, 0)}

\* requests without the members their command needs, or with none needed
BareRequests ==
    {Object(String("m1"), String(c)) : c \in Commands}
    \cup {Object(String("m2"), String(c)) : c \in {"test", "empty"}}
\* requests whose msgId or cmd is missing or not a string, and payloads that
\* are not an object
BrokenRequests ==
    {Malformed, Array, Object(Integer(7), String("test")),
     Object(String("m1"), Integer(1))}
\* enable-channels and disable-channels with every channel string, and an
\* inhibit-channels
ChannelRequests ==
    {With(Object(String("m1"), String(c)), "channels", Chars(cs)) :
        c \in {"enable-channels", "disable-channels"}, cs \in ChannelStrings}
    \cup {With(Object(String("m1"), String("inhibit-channels")), "channels",
               Chars(cs)) : cs \in {<<"1", "3", "5">>, <<"2">>}}
\* one request of each channel command
SomeChannelRequests ==
    {With(Object(String("m1"), String("enable-channels")), "channels",
          Chars(<<"1", "2">>)),
     With(Object(String("m1"), String("disable-channels")), "channels",
          Chars(<<"2">>)),
     With(Object(String("m1"), String("inhibit-channels")), "channels",
          Chars(<<"1", "3", "5">>))}
AmountRequests ==
    {With(Object(String("m1"), String(c)), "amount", Integer(200)) :
        c \in {"test-float", "do-float", "test-payout", "do-payout",
               "set-denomination-level"}}
LevelRequests ==
    {With(With(Object(String("m1"), String(c)), "level", l),
          "amount", Integer(200)) :
        c \in {"set-denomination-level", "set-cashbox-payout-limit"}, l \in Levels}
    \cup {With(Object(String("m1"), String(c)), "level", Integer(2)) :
        c \in {"set-denomination-level", "set-cashbox-payout-limit"}}
BezelRequests ==
    {With(With(With(With(Object(String("m1"), String("configure-bezel")),
        "r", Integer(255)), "g", Integer(0)), "b", b), "type", t) :
        b \in {Integer(300), Absent}, t \in {Integer(1), Absent}}
\* members of the wrong type: the amount a string, the channels an integer
WrongTypeRequests ==
    {With(Object(String("m1"), String("do-payout")), "amount", String("200")),
     With(Object(String("m1"), String("enable-channels")), "channels", Integer(12))}
Requests ==
    BareRequests \cup BrokenRequests \cup SomeChannelRequests \cup AmountRequests
    \cup LevelRequests \cup BezelRequests \cup WrongTypeRequests

(***************************************************************************)
(* The program.                                                            *)
(***************************************************************************)
Next ==
    \/ \E sig \in Signals : signalHandler(sig)
    \/ \E argv \in CmdLines : parseCmdLine(argv)
    \/ \E opened \in BOOLEAN : mcSspOpenSerialDevice(opened)
    \/ \E connected \in BOOLEAN : setupRedis(connected)
    \/ \E dev \in Devices, resp \in Outcomes :
          \E reply \in SetupReplies(dev) : mcSspInitializeDevice(dev, resp, reply)
    \/ \E resp \in Outcomes : configureHopper(resp)
    \/ \E resp \in Outcomes : configureValidator(resp)
    \/ installPoll
    \/ publishStarted
    \/ hardwareWaitTime
    \/ redisWrite
    \/ cbOnCheckQuitEvent
    \/ publishExiting
    \/ cbOnPollEvent(FALSE)
    \/ \E dev \in Devices : cbOnSubscribed(dev)
    \/ \E dev \in Devices, json \in Requests :
          uuidClock < MaxRequests /\ cbOnRequestMessage(dev, json)

Spec == Init /\ [][Next]_vars

\* the same program with clients that send channel commands only, more of them
NextChannels ==
    \/ \E sig \in Signals : signalHandler(sig)
    \/ \E argv \in CmdLines : parseCmdLine(argv)
    \/ \E opened \in BOOLEAN : mcSspOpenSerialDevice(opened)
    \/ \E connected \in BOOLEAN : setupRedis(connected)
    \/ \E dev \in Devices, resp \in Outcomes :
          \E reply \in SetupReplies(dev) : mcSspInitializeDevice(dev, resp, reply)
    \/ \E resp \in Outcomes : configureHopper(resp)
    \/ \E resp \in Outcomes : configureValidator(resp)
    \/ installPoll
    \/ publishStarted
    \/ hardwareWaitTime
    \/ redisWrite
    \/ cbOnCheckQuitEvent
    \/ publishExiting
    \/ cbOnPollEvent(FALSE)
    \/ \E dev \in Devices : cbOnSubscribed(dev)
    \/ \E dev \in Devices, json \in ChannelRequests :
          uuidClock < MaxChannelRequests /\ cbOnRequestMessage(dev, json)

SpecChannels == Init /\ [][NextChannels]_vars

\* the same program with no clients and peers that report every event of
\* AllPollEvents
NextEvents ==
    \/ \E sig \in Signals : signalHandler(sig)
    \/ \E argv \in CmdLines : parseCmdLine(argv)
    \/ \E opened \in BOOLEAN : mcSspOpenSerialDevice(opened)
    \/ \E connected \in BOOLEAN : setupRedis(connected)
    \/ \E dev \in Devices, resp \in Outcomes :
          \E reply \in SetupReplies(dev) : mcSspInitializeDevice(dev, resp, reply)
    \/ \E resp \in Outcomes : configureHopper(resp)
    \/ \E resp \in Outcomes : configureValidator(resp)
    \/ installPoll
    \/ publishStarted
    \/ hardwareWaitTime
    \/ redisWrite
    \/ cbOnCheckQuitEvent
    \/ publishExiting
    \/ cbOnPollEvent(TRUE)
    \/ \E dev \in Devices : cbOnSubscribed(dev)

SpecEvents == Init /\ [][NextEvents]_vars

\* the same with the scheduling of the event loop: evPoll and evCheckQuit are
\* persistent timers, so a tick that can fire again and again does fire; a
\* callback the loop has started gets through its dwell, and the loop writes
\* what is queued
SpecTicks ==
    /\ Init /\ [][NextEvents]_vars
    /\ WF_vars(hardwareWaitTime)
    /\ WF_vars(redisWrite)
    /\ SF_vars(cbOnCheckQuitEvent)
    /\ SF_vars(cbOnPollEvent(TRUE))

(***************************************************************************)
(* The command session beneath one exchange, frame by frame: the host      *)
(* sends the command with the current sequence bit and reads the response; *)
(* a response that is missing, fails its CRC or carries another address    *)
(* makes it send the same frame again, a valid one toggles the bit.        *)
(***************************************************************************)
\* twice the retries
RetryLevel_Twice == 2 * 3
\* mcSspSetupCommand: sspC->RetryLevel
RetryLevel == 3

\* what comes back for one frame
LinkAnswers == {"valid", "timeout", "crc", "address"}

\* the state of main() and setup(), which the session does not touch
program ==
    <<pc, step, exitCode, sspAvailable, acceptCoins, receivedSignal,
      evPollInstalled, sspDeviceAvailable, channelInhibits, sspSetupReq,
      uuidClock, tick, last, req, cmd, exch, pub, unsent>>

\* send_ssp_command, one frame of it: a new exchange when the last one of
\* the peer has ended, a retry otherwise
send_ssp_command(dev, answer) ==
    LET s == session[dev]
        frames == IF s.result = "retry" THEN Append(s.frames, s.seq) ELSE <<s.seq>>
    IN /\ s.valid < MaxExchanges
       \* one serial line, one caller: no exchange starts inside another
       /\ \A other \in Devices \ {dev} : session[other].result # "retry"
       /\ session' = [session EXCEPT ![dev] =
              IF answer = "valid"
              THEN [seq |-> 1 - s.seq, frames |-> frames, result |-> "ok",
                    valid |-> s.valid + 1]
              ELSE IF Len(frames) > RetryLevel
              THEN [s EXCEPT !.frames = frames, !.result = "timeout"]
              ELSE [s EXCEPT !.frames = frames, !.result = "retry"]]
       /\ UNCHANGED program

NextSession ==
    \E dev \in Devices, answer \in LinkAnswers : send_ssp_command(dev, answer)

SpecSession == Init /\ [][NextSession]_vars

(***************************************************************************)
(* The claims.                                                             *)
(***************************************************************************)
\* the response topic and the peer the specification pairs with a request topic
PairedTopic(topic) ==
    IF topic = "validator-request" THEN "validator-response"
    ELSE IF topic = "hopper-request" THEN "hopper-response" ELSE ""
PairedDevice(topic) ==
    IF topic = "validator-request" THEN "validator"
    ELSE IF topic = "hopper-request" THEN "hopper" ELSE ""
\* the step just taken handled a request with a string msgId and a string cmd
HandledCommand == last = "request" /\ req.msgId # NULL /\ req.command # NULL

\* C1: every request that parses and carries a string msgId and a string cmd is
\* answered with exactly one response on the paired response topic, whatever
\* the command and whatever the peer answers.
C1_ExactlyOneResponse ==
    HandledCommand => Len(pub) = 1 /\ pub[1].topic = PairedTopic(req.topic)

\* C2: every message published on hopper-response or validator-response in
\* reply to a request that parsed carries a msgId field and a correlId field.
C2_RepliesCarryBothIds ==
    (last = "request" /\ req.kind # "malformed") =>
        \A i \in 1..Len(pub) :
            pub[i].topic \in {"hopper-response", "validator-response"}
                => {"msgId", "correlId"} \subseteq pub[i].keys

\* C3: every response to a request with a string msgId carries that msgId as
\* its correlId and goes to the paired response topic; the handler's exchanges
\* are all with the paired peer; the msgId generated for the response differs
\* from every msgId generated before, and a response that carries a msgId
\* carries that one.
C3_CorrelatedPairedFresh ==
    (last = "request" /\ req.msgId # NULL) =>
        /\ \A i \in 1..Len(pub) :
              /\ "correlId" \in pub[i].keys
              /\ pub[i].correlId = req.msgId[1]
              /\ pub[i].topic = PairedTopic(req.topic)
              /\ "msgId" \in pub[i].keys => Ptr(pub[i].msgId) = cmd.msgId
        /\ \A i \in 1..Len(exch) : exch[i].dev = PairedDevice(req.topic)
        /\ cmd.msgId # NULL
        /\ \A k \in 0..(uuidClock - 1) : cmd.msgId # Ptr(Uuid(k))
C3_Witness ==
    /\ last = "request" /\ req.topic = "hopper-request" /\ req.msgId = Ptr("m2")
    /\ uuidClock = 2
    /\ Len(exch) = 1 /\ exch[1].dev = "hopper"
    /\ Len(pub) = 1 /\ pub[1].correlId = "m2" /\ pub[1].msgId = "uuid-2"
    /\ pub[1].topic = "hopper-response"

\* C4: once the serial device failed to open (sspAvailable = 0), no SSP
\* exchange ever takes place, the process only dies of a failed redis
\* connection or a bad command line, started is published and the loop runs
\* with its poll tick, quit and test are answered ok and every other command
\* is answered "hardware unavailable".
C4_NoHardware ==
    (sspAvailable = 0 /\ pc \notin {"parseCmdLine", "openSerial"}) =>
        /\ exch = <<>>
        /\ pc \in {"connectRedis", "installPoll", "started", "loop", "exiting",
                   "done", "died"}
        /\ pc = "died" => exitCode = 1
        /\ last = "started" =>
              /\ pc = "loop"
              /\ Len(pub) = 1 /\ pub[1].text = "started" /\ pub[1].topic = "payout-event"
        /\ pc = "loop" => evPollInstalled
        /\ HandledCommand =>
              /\ Len(pub) = 1
              /\ pub[1].topic = PairedTopic(req.topic)
              /\ IF req.command[1] \in {"quit", "test"}
                 THEN "result" \in pub[1].keys /\ pub[1].text = "ok"
                 ELSE "error" \in pub[1].keys /\ pub[1].text = "hardware unavailable"
C4_Witness ==
    /\ sspAvailable = 0 /\ pc = "loop" /\ uuidClock = 2
    /\ HandledCommand /\ req.command = Ptr("empty")
    /\ Len(pub) = 1 /\ pub[1].text = "hardware unavailable"

\* C5: a request whose payload is not valid JSON gets exactly one reply, the
\* error "could not parse json" with reason and line, on the paired response
\* topic; the step makes no SSP exchange and changes neither peer record.
C5_ParseError ==
    [][(last' = "request" /\ req'.kind = "malformed") =>
          /\ Len(pub') = 1
          /\ pub'[1].topic = PairedTopic(req'.topic)
          /\ pub'[1].keys = {"error", "reason", "line"}
          /\ pub'[1].text = "could not parse json"
          /\ exch' = <<>>
          /\ UNCHANGED <<sspDeviceAvailable, channelInhibits, sspSetupReq>>]_vars
C5_Witness ==
    /\ last = "request" /\ req.kind = "malformed" /\ req.topic = "validator-request"
    /\ sspAvailable = 1
    /\ Len(pub) = 1 /\ pub[1].topic = "validator-response"
    /\ pub[1].text = "could not parse json"

\* the mask the specification asks for: bit d-1 is set (enable) or cleared
\* (disable) for every digit d of the channels string, the others are kept
RECURSIVE MaskFor(_, _, _, _)
MaskFor(old, channels, enable, d) ==
    IF d > 8 THEN 0
    ELSE (IF \E i \in 1..Len(channels) : channels[i] = ToString(d)
          THEN (IF enable THEN 1 ELSE 0)
          ELSE (old \div (2 ^ (d - 1))) % 2) * (2 ^ (d - 1))
         + MaskFor(old, channels, enable, d + 1)

\* the step handles an enable-channels or disable-channels with a channels
\* string while the hardware is available
ChannelCommand ==
    /\ last' = "request" /\ req'.msgId # NULL
    /\ req'.command \in {Ptr("enable-channels"), Ptr("disable-channels")}
    /\ req'.channels.t = "str"
    /\ sspAvailable # 0

\* C6: every enable-channels or disable-channels makes one exchange,
\* SET_INHIBITS with high byte 0xFF and as low byte the persisted mask with
\* the named channels' bits set or cleared; the persisted mask becomes that
\* low byte when the peer answers OK and stays as it was otherwise, and the
\* other peer's mask is untouched.
C6_SetInhibits ==
    [][ChannelCommand =>
          LET dev == PairedDevice(req'.topic)
              low == MaskFor(channelInhibits[dev], req'.channels.cs,
                             req'.command = Ptr("enable-channels"), 1)
          IN /\ Len(exch') = 1
             /\ exch'[1].cmd = "SET_INHIBITS" /\ exch'[1].dev = dev
             /\ exch'[1].args = <<low, 255>>
             /\ channelInhibits' =
                   [channelInhibits EXCEPT
                       ![dev] = IF exch'[1].resp = "SSP_RESPONSE_OK" THEN low ELSE @]
       ]_vars
\* the third command of: enable "12", disable "2", enable "3" on the validator
C6_Witness ==
    /\ last = "request" /\ uuidClock = 3 /\ sspDeviceAvailable["validator"] = 1
    /\ req.topic = "validator-request" /\ req.command = Ptr("enable-channels")
    /\ req.channels.cs = <<"3">>
    /\ Len(exch) = 1 /\ exch[1].args = <<5, 255>>
    /\ exch[1].resp = "SSP_RESPONSE_OK" /\ channelInhibits["validator"] = 5

\* a successful command on the validator
ValidatorCommand(name, channels) ==
    /\ last' = "request" /\ req'.topic = "validator-request"
    /\ req'.msgId # NULL /\ req'.command = Ptr(name)
    /\ req'.channels.t = "str" /\ req'.channels.cs = channels
    /\ Len(exch') = 1 /\ exch'[1].resp = "SSP_RESPONSE_OK"

\* C7 as stated: a successful enable-channels("135") takes the validator's
\* mask from 0 to 0b00010101, and a successful disable-channels("3") after it
\* leaves 0b00010101.
C7_AsStated ==
    [][/\ (ValidatorCommand("enable-channels", <<"1", "3", "5">>)
             /\ channelInhibits["validator"] = 0)
          => channelInhibits'["validator"] = 21
       /\ (ValidatorCommand("disable-channels", <<"3">>)
             /\ channelInhibits["validator"] = 21)
          => channelInhibits'["validator"] = 21
      ]_vars

\* C7 amended: a successful enable-channels("135") takes the validator's mask
\* from 0 to 0b00010101, and a successful disable-channels("3") after it
\* leaves 0b00010001.
C7_Amended ==
    [][/\ (ValidatorCommand("enable-channels", <<"1", "3", "5">>)
             /\ channelInhibits["validator"] = 0)
          => channelInhibits'["validator"] = 21
       /\ (ValidatorCommand("disable-channels", <<"3">>)
             /\ channelInhibits["validator"] = 21)
          => channelInhibits'["validator"] = 17
      ]_vars
C7_Witness ==
    /\ last = "request" /\ uuidClock = 2 /\ sspDeviceAvailable["validator"] = 1
    /\ req.topic = "validator-request" /\ req.command = Ptr("disable-channels")
    /\ req.channels.cs = <<"3">>
    /\ Len(exch) = 1 /\ exch[1].args = <<17, 255>>
    /\ exch[1].resp = "SSP_RESPONSE_OK" /\ channelInhibits["validator"] = 17

\* the step just taken handled a set-denomination-level whose amount and
\* level are integers >= 0, with the hardware available
DenominationLevelCommand ==
    /\ HandledCommand /\ req.command = Ptr("set-denomination-level")
    /\ sspAvailable # 0
    /\ req.amount.t = "int" /\ req.amount.wraps = 0 /\ req.amount.n >= 0
    /\ req.level.t = "int" /\ req.level.wraps >= 0
    /\ req.level.wraps = 0 => req.level.n >= 0

\* C8: a set-denomination-level with amount >= 0 and level >= 0 makes exactly
\* two exchanges when level > 0, SET_DENOMINATION_LEVEL(amount, 0) and then
\* SET_DENOMINATION_LEVEL(amount, level), and exactly one when level = 0,
\* SET_DENOMINATION_LEVEL(amount, 0).
C8_ZeroThenLevel ==
    DenominationLevelCommand =>
        LET SetLevel(x, level) ==
                /\ x.cmd = "SET_DENOMINATION_LEVEL"
                /\ x.args = <<level, req.amount.n, "EUR">>
        IN IF req.level.wraps > 0 \/ req.level.n > 0
           THEN /\ Len(exch) = 2
                /\ SetLevel(exch[1], 0)
                /\ req.level.wraps = 0 /\ SetLevel(exch[2], req.level.n)
           ELSE Len(exch) = 1 /\ SetLevel(exch[1], 0)

\* C9: on a request or a poll, a command the peer answers with KEY_NOT_SET is
\* followed by a key negotiation with that peer and, when the negotiation
\* succeeds, by the same command once more; "key not set" is not what the
\* caller is told when negotiation and resend succeed.
C9_NegotiateAndResend ==
    last \in {"request", "poll:hopper", "poll:validator"} =>
        \A i \in 1..Len(exch) :
            (exch[i].resp = "SSP_RESPONSE_KEY_NOT_SET" /\ exch[i].cmd # "SETUP_ENCRYPTION")
            => /\ i < Len(exch)
               /\ exch[i + 1].cmd = "SETUP_ENCRYPTION" /\ exch[i + 1].dev = exch[i].dev
               /\ exch[i + 1].resp = "SSP_RESPONSE_OK" =>
                     /\ i + 2 <= Len(exch)
                     /\ exch[i + 2].cmd = exch[i].cmd /\ exch[i + 2].args = exch[i].args
                     /\ exch[i + 2].resp = "SSP_RESPONSE_OK" =>
                           \A k \in 1..Len(pub) : pub[k].text # "key not set"

\* C10: after a POLL the peer answered OK, the messages published for the
\* batch are on that peer's event topic and in batch order: a message for an
\* earlier event of the batch comes before a message for a later one.
C10_BatchOrder ==
    \A dev \in {"hopper", "validator"} :
        (last = "poll:" \o dev /\ exch # <<>> /\ exch[1].resp = "SSP_RESPONSE_OK") =>
            /\ \A i \in 1..Len(pub) : pub[i].topic = dev \o "-event"
            /\ \A i, j \in 1..Len(pub) : i < j => pub[i].src < pub[j].src
C10_Witness ==
    /\ last = "poll:validator" /\ exch # <<>> /\ exch[1].resp = "SSP_RESPONSE_OK"
    /\ Len(pub) = 2
    /\ pub[1].text = "read" /\ pub[1].src = 1
    /\ pub[2].text = "credit" /\ pub[2].src = 2

\* the step just taken polled the validator, the POLL was answered OK and the
\* handler went through the whole batch
ValidatorBatchHandled ==
    /\ last = "poll:validator" /\ pc # "died"
    /\ exch # <<>> /\ exch[1].cmd = "POLL" /\ exch[1].resp = "SSP_RESPONSE_OK"

\* C11: for every READ with channel c > 0 and every CREDIT with channel c of a
\* validator batch, the message published for it is "read" or "credit" with
\* channel = c and amount = 100 times the value of entry c of the channel
\* table SETUP_REQUEST stored; a READ with channel 0 is published as
\* "reading" with no amount.
C11_NoteAmounts ==
    ValidatorBatchHandled =>
        LET batch == exch[1].data
            table == sspSetupReq["validator"].ChannelData
        IN \A i \in 1..Len(batch) :
              LET c == batch[i].data1
                  ev == batch[i].event
              IN /\ (ev = "READ" /\ c = 0) =>
                       \E k \in 1..Len(pub) :
                           /\ pub[k].src = i /\ pub[k].topic = "validator-event"
                           /\ pub[k].text = "reading" /\ pub[k].keys = {"event"}
                 /\ ((ev = "READ" /\ c > 0) \/ ev = "CREDIT") =>
                       \E k \in 1..Len(pub) :
                           /\ pub[k].src = i /\ pub[k].topic = "validator-event"
                           /\ pub[k].text = (IF ev = "READ" THEN "read" ELSE "credit")
                           /\ pub[k].keys = {"event", "amount", "channel"}
                           /\ pub[k].channel = c
                           /\ c \in 1..Len(table)
                           /\ pub[k].amount = table[c] * 100

\* C12: the event loop is left only by the quit tick that saw the quit flag;
\* the process then publishes {event:"exiting"} on payout-event and ends with
\* exit code 0, and when it has ended nothing it published is still waiting
\* in the redis context to be written: the exiting message went out.
C12_ExitingDelivered ==
    /\ pc = "exiting" => last = "checkQuit" /\ receivedSignal = 0
    /\ pc = "done" =>
          /\ last = "exiting" /\ exitCode = 0
          /\ Len(pub) = 1 /\ pub[1].topic = "payout-event" /\ pub[1].text = "exiting"
          /\ ~unsent

\* the steps of setup() and the steps the event loop takes for a poll tick or
\* a bus message
SetupSteps ==
    {"setupRedis", "initialize", "configureHopper", "configureValidator",
     "installPoll"}
LoopSteps == {"poll", "poll:hopper", "poll:validator", "request", "subscribed"}

\* C13: {event:"started"} is published on payout-event by one step only, the
\* one that takes main() from the end of setup() into the event loop; that
\* step is taken at most once in a run and is the only way into the loop, no
\* step of setup() follows it and no poll tick or bus message is handled
\* before it.
C13_StartedOnce ==
    [][/\ (\E i \in 1..Len(pub') : pub'[i].text = "started")
            => /\ pc = "started" /\ pc' = "loop"
               /\ Len(pub') = 1 /\ pub'[1].topic = "payout-event"
               /\ pub'[1].keys = {"event"}
       /\ (pc # "loop" /\ pc' = "loop") => (pc = "started" /\ last' = "started")
       /\ pc' = "started"
            => /\ pc \in {"configureValidator", "installPoll"}
               /\ last' \in SetupSteps
       /\ pc \in {"loop", "exiting", "done", "died"}
            => pc' \in {"loop", "exiting", "done", "died"} /\ last' \notin SetupSteps
       /\ last' \in LoopSteps => pc = "loop"
      ]_vars
C13_Witness ==
    /\ last = "started" /\ pc = "loop"
    /\ Len(pub) = 1 /\ pub[1].text = "started" /\ pub[1].topic = "payout-event"
    /\ sspDeviceAvailable = [d \in {"hopper", "validator"} |-> 1]
    /\ evPollInstalled /\ channelInhibits["validator"] = 0

\* C14: a process that ended normally (the quit tick saw the flag) exits with
\* code 0, a process that ended on a fatal path (bad command line, no redis
\* connection, failed protocol pin after a RESET event) exits with code 1, and
\* there is no other exit code.
C14_ExitCodes ==
    /\ pc = "done" => exitCode = 0
    /\ pc = "died" => exitCode = 1
    /\ pc \notin {"done", "died"} => exitCode = -1

\* the step just taken polled dev and the POLL was answered OK with a batch
BatchPolled(dev) ==
    /\ last = "poll:" \o dev
    /\ exch # <<>> /\ exch[1].cmd = "POLL" /\ exch[1].resp = "SSP_RESPONSE_OK"
\* the batch positions the handler got to: all of them, or those up to the
\* RESET whose protocol pin failed and ended the process
HandledEvents ==
    IF pc = "died" THEN 1..pub[Len(pub)].src ELSE 1..Len(exch[1].data)

\* C15: for each peer, every calibration-fail event with code COMMAND_RECAL the
\* handler gets to causes exactly one message, {event:"recalibrating"} on that
\* peer's event topic, and exactly one RUN_CALIBRATION exchange with that
\* peer; no other event causes either.
C15_Recalibration ==
    \A dev \in {"hopper", "validator"} :
        BatchPolled(dev) =>
            LET batch == exch[1].data
                Recals == {i \in HandledEvents :
                              /\ batch[i].event = "CALIBRATION_FAIL"
                              /\ batch[i].data1 = COMMAND_RECAL}
                Runs == {k \in 1..Len(exch) : exch[k].cmd = "RUN_CALIBRATION"}
            IN /\ \A i \in Recals :
                     /\ Cardinality({k \in 1..Len(pub) : pub[k].src = i}) = 1
                     /\ \E k \in 1..Len(pub) :
                           /\ pub[k].src = i /\ pub[k].text = "recalibrating"
                           /\ pub[k].keys = {"event"}
                           /\ pub[k].topic = dev \o "-event"
               /\ \A k \in 1..Len(pub) :
                     pub[k].text = "recalibrating" => pub[k].src \in Recals
               /\ Cardinality(Runs) = Cardinality(Recals)
               /\ \A k \in Runs : exch[k].dev = dev
C15_Witness ==
    /\ BatchPolled("validator") /\ pc = "loop"
    /\ Len(exch[1].data) = 2
    /\ exch[1].data[1].event = "CALIBRATION_FAIL" /\ exch[1].data[1].data1 = SENSOR_FLAP
    /\ exch[1].data[2].event = "CALIBRATION_FAIL" /\ exch[1].data[2].data1 = COMMAND_RECAL
    /\ Len(exch) = 2 /\ exch[2].cmd = "RUN_CALIBRATION" /\ exch[2].dev = "validator"
    /\ Len(pub) = 2 /\ pub[2].text = "recalibrating"

\* the step just taken handled a payout or float command that carries an
\* integer amount, with the hardware available
PayoutCommand ==
    /\ HandledCommand /\ sspAvailable # 0
    /\ req.command[1] \in {"do-payout", "test-payout", "do-float", "test-float"}
    /\ req.amount.t = "int"

\* C16: do-payout, test-payout, do-float and test-float make one exchange,
\* PAYOUT or FLOAT with the DO option byte for do-* and the TEST option byte
\* for test-*.  When the peer answers COMMAND_NOT_PROCESSED the reply is an
\* error whose text the reason byte determines: 1 not enough value (in smart
\* payout), 2 can't pay exact amount, 3 (smart payout) busy, 4 (smart payout)
\* disabled, anything else unknown.  For every other answer the reply is
\* result ok or the sspError text of the response code.
C16_PayoutReplies ==
    PayoutCommand =>
        LET name == req.command[1]
            x == exch[1]
        IN /\ Len(exch) = 1 /\ Len(pub) = 1
           /\ x.cmd = (IF name \in {"do-payout", "test-payout"} THEN "PAYOUT" ELSE "FLOAT")
           /\ x.args[Len(x.args)] = (IF name \in {"do-payout", "do-float"} THEN "DO" ELSE "TEST")
           /\ x.args[Len(x.args) - 1] = req.amount.n
           /\ IF x.resp = "SSP_RESPONSE_COMMAND_NOT_PROCESSED"
              THEN /\ "error" \in pub[1].keys /\ Len(x.data) = 1
                   /\ pub[1].text =
                        (CASE x.data[1] = 1 -> "not enough value in smart payout"
                           [] x.data[1] = 2 -> "can't pay exact amount"
                           [] x.data[1] = 3 -> "smart payout busy"
                           [] x.data[1] = 4 -> "smart payout disabled"
                           [] OTHER -> "unknown")
              ELSE IF x.resp = "SSP_RESPONSE_OK"
              THEN "result" \in pub[1].keys /\ pub[1].text = "ok"
              ELSE /\ "sspError" \in pub[1].keys
                   /\ pub[1].text =
                        (CASE x.resp = "SSP_RESPONSE_TIMEOUT" -> "timeout"
                           [] x.resp = "SSP_RESPONSE_KEY_NOT_SET" -> "key not set"
                           [] x.resp = "SSP_RESPONSE_FAILURE" -> "failure"
                           [] OTHER -> "unknown")
C16_Witness ==
    /\ PayoutCommand /\ req.command = Ptr("do-float") /\ req.topic = "hopper-request"
    /\ Len(exch) = 1 /\ exch[1].args = <<100, 200, "DO">>
    /\ exch[1].resp = "SSP_RESPONSE_COMMAND_NOT_PROCESSED" /\ exch[1].data = <<3>>
    /\ Len(pub) = 1 /\ pub[1].text = "smart payout busy"

\* the pieces of a levels array that are JSON objects
Objects(body) == SelectSeq(body, LAMBDA piece : piece.t = "{}")
\* the step just taken handled the named command and the peer answered OK
AnsweredOk(name) ==
    /\ HandledCommand /\ req.command = Ptr(name) /\ sspAvailable # 0
    /\ Len(exch) = 1 /\ exch[1].resp = "SSP_RESPONSE_OK"

\* C17: when the peer answers get-all-levels with OK and n as first data byte,
\* the levels array of the reply has exactly n entries, and entry k has as
\* level bytes 0..1, as value bytes 2..5 (both little endian) and as cc bytes
\* 6..8 of the k-th 9-byte record after the count.
C17_LevelsEntries ==
    AnsweredOk("get-all-levels") =>
        LET data == exch[1].data
            n == data[1]
            entries == Objects(pub[1].body)
            byte(k, b) == data[2 + 9 * (k - 1) + b]
        IN /\ Len(pub) = 1 /\ "levels" \in pub[1].keys
           /\ Len(entries) = n
           /\ \A k \in 1..n :
                 /\ entries[k].keys = {"value", "level", "cc"}
                 /\ entries[k].level = byte(k, 0) + 256 * byte(k, 1)
                 /\ entries[k].value = byte(k, 2) + 256 * byte(k, 3)
                                         + 65536 * byte(k, 4) + 16777216 * byte(k, 5)
                 /\ byte(k, 6) = 69 /\ byte(k, 7) = 85 /\ byte(k, 8) = 82
                 /\ entries[k].cc = "EUR"
C17_Witness ==
    /\ AnsweredOk("get-all-levels") /\ req.topic = "hopper-request"
    /\ exch[1].data = <<2, 0, 0, 16, 39, 0, 0, 69, 85, 82,
                           2, 1, 200, 0, 0, 0, 69, 85, 82>>
    /\ Len(pub) = 1 /\ Len(Objects(pub[1].body)) = 2
    /\ Objects(pub[1].body)[1].value = 10000 /\ Objects(pub[1].body)[1].level = 0
    /\ Objects(pub[1].body)[2].value = 200 /\ Objects(pub[1].body)[2].level = 258

\* a list of JSON objects: one separator between consecutive objects, none
\* before the first and none after the last
WellFormedList(body) ==
    \A i \in 1..Len(body) : body[i].t = (IF i % 2 = 1 THEN "{}" ELSE ",")

\* C18: when the peer answers cashbox-payout-operation-data with OK and n
\* counters (n >= 0), the levels array of the reply is a well-formed list of
\* n + 1 entries: the n counters, then {value:0, level:qtyUnknown} with
\* qtyUnknown the three bytes (little endian) after the last counter.
C18_CashboxEntries ==
    AnsweredOk("cashbox-payout-operation-data") =>
        LET data == exch[1].data
            n == data[1]
            body == pub[1].body
            entries == Objects(body)
            q == 1 + 9 * n
        IN /\ Len(pub) = 1 /\ "levels" \in pub[1].keys
           /\ WellFormedList(body)
           /\ Len(body) = 2 * n + 1
           /\ Len(entries) = n + 1
           /\ \A k \in 1..n : entries[k].keys = {"value", "level", "cc"}
           /\ entries[n + 1].keys = {"value", "level"}
           /\ entries[n + 1].value = 0
           /\ entries[n + 1].level = data[q + 1] + 256 * data[q + 2] + 65536 * data[q + 3]

\* the step handles an inhibit-channels with a channels string while the
\* hardware is available
InhibitCommand ==
    /\ last' = "request" /\ req'.msgId # NULL
    /\ req'.command = Ptr("inhibit-channels")
    /\ req'.channels.t = "str"
    /\ sspAvailable # 0

\* C19: every inhibit-channels makes one exchange, SET_INHIBITS with high byte
\* 0xFF and as low byte 0xFF with bit d-1 cleared for every digit d of the
\* channels string, whatever the persisted mask, and the persisted masks of
\* both peers stay as they were, whatever the peer answers.
C19_InhibitStateless ==
    [][InhibitCommand =>
          /\ Len(exch') = 1
          /\ exch'[1].cmd = "SET_INHIBITS" /\ exch'[1].dev = PairedDevice(req'.topic)
          /\ exch'[1].args = <<MaskFor(255, req'.channels.cs, FALSE, 1), 255>>
          /\ channelInhibits' = channelInhibits
      ]_vars
\* inhibit "135" on the validator whose persisted mask an enable "12" made 3
C19_Witness ==
    /\ last = "request" /\ req.topic = "validator-request"
    /\ req.command = Ptr("inhibit-channels") /\ req.channels.cs = <<"1", "3", "5">>
    /\ Len(exch) = 1 /\ exch[1].args = <<234, 255>>
    /\ exch[1].resp = "SSP_RESPONSE_OK"
    /\ channelInhibits["validator"] = 3

\* the step handles a quit or a test command
QuitOrTest ==
    /\ last' = "request" /\ req'.msgId # NULL
    /\ req'.command \in {Ptr("quit"), Ptr("test")}

\* C20: quit and test are answered with result ok on the paired response
\* topic whether or not the hardware is available, make no SSP exchange and
\* leave both peer records as they were; quit sets the quit flag and changes
\* nothing else, test changes nothing of the daemon's state.
C20_QuitAndTest ==
    [][QuitOrTest =>
          /\ exch' = <<>>
          /\ Len(pub') = 1 /\ pub'[1].topic = PairedTopic(req'.topic)
          /\ pub'[1].keys = {"msgId", "correlId", "result"} /\ pub'[1].text = "ok"
          /\ pub'[1].correlId = req'.msgId[1]
          /\ UNCHANGED <<sspDeviceAvailable, channelInhibits, sspSetupReq>>
          /\ UNCHANGED <<pc, step, exitCode, sspAvailable, acceptCoins,
                         evPollInstalled, tick>>
          /\ IF req'.command = Ptr("quit")
             THEN receivedSignal' # 0
             ELSE receivedSignal' = receivedSignal
      ]_vars
C20_Witness ==
    /\ last = "request" /\ req.command = Ptr("quit") /\ req.topic = "validator-request"
    /\ sspAvailable = 1 /\ sspDeviceAvailable["validator"] = 1
    /\ exch = <<>> /\ Len(pub) = 1 /\ pub[1].text = "ok"
    /\ receivedSignal = 1 /\ pc = "loop"

\* the properties the handler of a command needs, in the order it looks at
\* them; channels is a string, the others are integers
MandatoryProperties(command) ==
    CASE command \in {"do-payout", "test-payout", "do-float", "test-float"} -> <<"amount">>
      [] command \in {"enable-channels", "disable-channels", "inhibit-channels"} ->
            <<"channels">>
      [] command \in {"set-denomination-level", "set-cashbox-payout-limit"} ->
            <<"level", "amount">>
      [] command = "configure-bezel" -> <<"r", "g", "b", "type">>
      [] OTHER -> <<>>
\* whether property k of request r is missing or of the wrong type
Offends(r, k) ==
    CASE k = "channels" -> r.channels.t # "str"
      [] k = "amount" -> r.amount.t # "int"
      [] k = "level" -> r.level.t # "int"
      [] OTHER -> r.bezel[k].t # "int"
RECURSIVE FirstOffending(_, _, _)
FirstOffending(r, names, i) ==
    IF i > Len(names) THEN ""
    ELSE IF Offends(r, names[i]) THEN names[i]
    ELSE FirstOffending(r, names, i + 1)
\* the first offending property of a request that parsed: msgId, then cmd,
\* then the handler's own ("" when there is none)
Offending(r) ==
    IF r.msgId = NULL THEN "msgId"
    ELSE IF r.command = NULL THEN "cmd"
    ELSE FirstOffending(r, MandatoryProperties(r.command[1]), 1)

SetInhibitsOf(x, dev) ==
    {k \in 1..Len(x) : x[k].cmd = "SET_INHIBITS" /\ x[k].dev = dev}
SetInhibitsOkOf(x, dev) ==
    {k \in SetInhibitsOf(x, dev) : x[k].resp = "SSP_RESPONSE_OK"}
Latest(positions) == CHOOSE k \in positions : \A j \in positions : j <= k

\* C22: step by step, each peer's persisted channelInhibits follows the
\* SET_INHIBITS exchanges with that peer: after a step that made one the peer
\* answered OK - in setup, enable-channels, disable-channels or
\* inhibit-channels - it is the low byte of the last such exchange; after any
\* other step, a step whose SET_INHIBITS failed included, it is what it was.
C22_LastSetInhibits ==
    [][\A dev \in {"hopper", "validator"} :
          IF SetInhibitsOkOf(exch', dev) # {}
          THEN channelInhibits'[dev] = exch'[Latest(SetInhibitsOkOf(exch', dev))].args[1]
          ELSE channelInhibits'[dev] = channelInhibits[dev]
      ]_vars

\* C23: inside one callback of the event loop (a poll of a peer, a bus-driven
\* command), an exchange the peer answers with KEY_NOT_SET that is not the
\* callback's last is followed at once by the key negotiation with that peer:
\* no other command goes to the peer in between.
C23_NegotiationNext ==
    last \in {"request", "poll:hopper", "poll:validator"} =>
        \A i \in 1..(Len(exch) - 1) :
            exch[i].resp = "SSP_RESPONSE_KEY_NOT_SET"
            => /\ exch[i + 1].cmd = "SETUP_ENCRYPTION"
               /\ exch[i + 1].dev = exch[i].dev

\* the steps of setup() that talk to a peer, and the exchanges the setup
\* sequence of a peer consists of
SetupExchangeSteps == {"initialize", "configureHopper", "configureValidator"}
SetupSequenceCommands ==
    {"SYNC", "SETUP_ENCRYPTION", "HOST_PROTOCOL", "SETUP_REQUEST", "ENABLE",
     "SET_COINMECH_INHIBITS", "SET_REFILL_MODE", "SET_ROUTE", "SET_INHIBITS",
     "ENABLE_PAYOUT"}
\* what is a step of setup() in which an exchange of the setup sequence of
\* dev failed
FailedSetupStep(what, x, dev) ==
    /\ what \in SetupExchangeSteps
    /\ \E k \in 1..Len(x) :
          /\ x[k].dev = dev /\ x[k].cmd \in SetupSequenceCommands
          /\ x[k].resp # "SSP_RESPONSE_OK"

\* C24: once an exchange of a peer's setup sequence has failed, the next step
\* of setup() makes no exchange with that peer, and a peer whose exchange
\* failed in the step that ends setup() is unavailable then: the flag is set
\* only when the peer-specific enablement succeeded too.
C24_AvailableAfterFullSetup ==
    [][\A dev \in {"hopper", "validator"} :
          /\ (FailedSetupStep(last, exch, dev) /\ last' \in SetupExchangeSteps)
                => \A k \in 1..Len(exch') : exch'[k].dev # dev
          /\ (FailedSetupStep(last', exch', dev) /\ pc' = "started")
                => sspDeviceAvailable'[dev] = 0
      ]_vars

\* the step is one turn of the poll tick with the serial link available: the
\* hopper's when the tick starts, the validator's after it
PollTurn ==
    /\ last' \in {"poll", "poll:hopper", "poll:validator"}
    /\ sspAvailable # 0
\* a poll tick or the end of the event loop
TickOrShutdown ==
    \/ last \in {"poll", "poll:hopper", "poll:validator"}
    \/ pc # "loop"

\* C25: with the serial link available, a poll tick takes the hopper's turn
\* first and the validator's turn next; a turn sends exactly one POLL to its
\* peer when the peer is marked available and makes no exchange when it is
\* not; and in the event loop a poll tick always comes again unless the loop
\* ends.
C25_PollTicks ==
    /\ [][PollTurn =>
            LET dev == IF tick = "idle" THEN "hopper" ELSE "validator"
                polls == {k \in 1..Len(exch') : exch'[k].cmd = "POLL"}
            IN /\ tick' = (IF tick = "idle" THEN "validator" ELSE "idle")
               /\ \A k \in 1..Len(exch') : exch'[k].dev = dev
               /\ IF sspDeviceAvailable[dev] # 0
                  THEN polls = {1}
                  ELSE exch' = <<>>
         ]_vars
    /\ [](pc = "loop" /\ sspAvailable # 0 => <>TickOrShutdown)

\* the step just taken was dev's turn of a poll tick and its POLL timed out
PollTimedOut(dev) ==
    /\ last = "poll:" \o dev
    /\ exch # <<>> /\ exch[1].cmd = "POLL" /\ exch[1].resp = "SSP_RESPONSE_TIMEOUT"
\* dev is polled
Polled(dev) == last = "poll:" \o dev /\ exch # <<>> /\ exch[1].cmd = "POLL"

\* C26: a turn of the poll tick whose POLL times out makes no other exchange
\* and publishes nothing, leaves both peer records (availability flag,
\* inhibit mask, setup data) as they were and does not end the process; after
\* a hopper turn that timed out the validator, when marked available, is still
\* polled, and after any turn that timed out the peer is polled again once
\* the next dwell has passed, unless the event loop ends first.
C26_PollTimeout ==
    /\ [][\A dev \in {"hopper", "validator"} :
            PollTimedOut(dev)' =>
                /\ Len(exch') = 1 /\ pub' = <<>>
                /\ UNCHANGED <<sspDeviceAvailable, channelInhibits, sspSetupReq>>
                /\ pc' = pc
         ]_vars
    /\ [](PollTimedOut("hopper") /\ sspDeviceAvailable["validator"] # 0
            => <>(Polled("validator") \/ pc # "loop"))
    /\ \A dev \in {"hopper", "validator"} :
          [](PollTimedOut(dev)
               => <>(\/ pc # "loop"
                     \/ last = "wait" /\ <>(Polled(dev) \/ pc # "loop")))
\* the hopper's POLL timed out, the validator's turn is next
C26_Witness ==
    /\ PollTimedOut("hopper") /\ Len(exch) = 1 /\ pub = <<>>
    /\ tick = "validator" /\ pc = "loop"
    /\ sspDeviceAvailable = [d \in {"hopper", "validator"} |-> 1]

\* the n-th member of a set of batch positions
Nth(positions, n) ==
    CHOOSE i \in positions : Cardinality({j \in positions : j <= i}) = n

\* C27: for each peer, the exchanges a handler makes for a batch pin the
\* protocol version to 6 once for every RESET it gets to, in batch order.
\* When every pin is answered OK the handler gets through the whole batch and
\* the process goes on; when a pin fails it is the handler's last exchange,
\* the process has ended, and nothing was published for the events after
\* that RESET.
C27_ResetRepin ==
    \A dev \in {"hopper", "validator"} :
        BatchPolled(dev) =>
            LET batch == exch[1].data
                handler == SubSeq(exch, 2, Len(exch))
                Resets == {i \in 1..Len(batch) : batch[i].event = "RESET"}
                Pins == {k \in 1..Len(handler) : handler[k].cmd = "HOST_PROTOCOL"}
                Failed == {k \in Pins : handler[k].resp # "SSP_RESPONSE_OK"}
                Published(i) == \E k \in 1..Len(pub) : pub[k].src = i
            IN /\ \A k \in Pins : handler[k].dev = dev /\ handler[k].args = <<6>>
               /\ \A i \in Resets :
                     \A k \in 1..Len(pub) : pub[k].src = i => pub[k].text = "unit reset"
               /\ IF Failed = {}
                  THEN /\ pc = "loop" /\ exitCode = -1
                       /\ Cardinality(Pins) = Cardinality(Resets)
                       /\ \A i \in 1..Len(batch) :
                             batch[i].event # "CALIBRATION_FAIL" => Published(i)
                  ELSE /\ Failed = {Len(handler)}
                       /\ pc = "died" /\ exitCode # -1
                       /\ Cardinality(Pins) <= Cardinality(Resets)
                       /\ LET reset == Nth(Resets, Cardinality(Pins))
                          IN /\ \A i \in 1..reset :
                                   batch[i].event # "CALIBRATION_FAIL" => Published(i)
                             /\ \A k \in 1..Len(pub) : pub[k].src <= reset
\* RESET, then a note: the pin succeeds and the note is published
C27_Witness ==
    /\ BatchPolled("validator") /\ pc = "loop"
    /\ Len(exch[1].data) = 2
    /\ exch[1].data[1].event = "RESET" /\ exch[1].data[2].event = "CREDIT"
    /\ Len(exch) = 2 /\ exch[2].cmd = "HOST_PROTOCOL" /\ exch[2].args = <<6>>
    /\ exch[2].resp = "SSP_RESPONSE_OK"
    /\ Len(pub) = 2 /\ pub[1].text = "unit reset" /\ pub[2].text = "credit"

\* C28: every step that talks to a peer - in setup(), in a poll turn, in a
\* command handler, in an event handler - starts right after a dwell and
\* makes one exchange only: each exchange has a dwell of its own before it.
C28_DwellBeforeExchange ==
    [][exch' # <<>> => (last = "wait" /\ Len(exch') = 1)]_vars

\* what a poll turn may send after its POLL: the key negotiation, or what an
\* event handler sends
PollFollowUps == {"SETUP_ENCRYPTION", "HOST_PROTOCOL", "RUN_CALIBRATION"}

\* C29: the exchanges of a step are those of one callback with one peer: a
\* command handler's are all with the peer of its request topic and none of
\* them is a POLL; a poll turn's are all with the turn's peer, the POLL first
\* and only once; and while a poll tick is between its two turns no bus
\* message and no quit tick is handled, a bus message being taken up only
\* when no callback is running.
C29_Serialised ==
    [][/\ last' = "request" =>
            /\ tick = "idle" /\ tick' = "idle"
            /\ \A k \in 1..Len(exch') :
                  exch'[k].cmd # "POLL" /\ exch'[k].dev = PairedDevice(req'.topic)
       /\ \A dev \in {"hopper", "validator"} :
             last' = "poll:" \o dev =>
                 /\ tick = (IF dev = "hopper" THEN "idle" ELSE "validator")
                 /\ \A k \in 1..Len(exch') :
                       /\ exch'[k].dev = dev
                       /\ IF k = 1 THEN exch'[k].cmd = "POLL"
                          ELSE exch'[k].cmd \in PollFollowUps
       /\ tick # "idle" => last' \in {"wait", "poll", "poll:validator"}
      ]_vars
\* after a command was handled, a validator turn: POLL, then the pin a RESET
\* asks for
C29_Witness ==
    /\ last = "poll:validator" /\ tick = "idle" /\ uuidClock = 1
    /\ Len(exch) = 2 /\ exch[1].cmd = "POLL" /\ exch[2].cmd = "HOST_PROTOCOL"
    /\ exch[1].dev = "validator" /\ exch[2].dev = "validator"
    /\ sspDeviceAvailable["hopper"] = 1

\* the place of a validator setup command in the order ENABLE_PAYOUT,
\* SET_ROUTE, SET_INHIBITS; SET_REFILL_MODE has no place in it
SetupRank(command) ==
    IF command = "ENABLE_PAYOUT" THEN 1
    ELSE IF command = "SET_ROUTE" THEN 2
    ELSE IF command = "SET_INHIBITS" THEN 3
    ELSE 0

\* C30: of two consecutive exchanges of the validator part of setup, neither
\* of them SET_REFILL_MODE, the second is not earlier than the first in the
\* order ENABLE_PAYOUT, SET_ROUTE, SET_INHIBITS; SET_INHIBITS carries 0x00
\* and 0x00 and SET_REFILL_MODE carries 05 81 10 11 01 01 52 F5.
C30_SetupOrder ==
    [][last' = "configureValidator" =>
          LET now == exch'[1]
          IN /\ now.cmd = "SET_INHIBITS" => now.args = <<0, 0>>
             /\ now.cmd = "SET_REFILL_MODE" => now.args = <<5, 129, 16, 17, 1, 1, 82, 245>>
             /\ (last = "configureValidator"
                    /\ SetupRank(exch[1].cmd) # 0 /\ SetupRank(now.cmd) # 0)
                   => SetupRank(exch[1].cmd) <= SetupRank(now.cmd)
      ]_vars

\* the routes of the validator, in the order of their SET_ROUTE
Routes ==
    << <<500, "EUR", 1>>, <<1000, "EUR", 1>>, <<2000, "EUR", 1>>,
       <<5000, "EUR", 0>>, <<10000, "EUR", 0>>, <<20000, "EUR", 0>>,
       <<50000, "EUR", 0>> >>

\* the places of main() and setup(), in program order
PcOrder ==
    <<"parseCmdLine", "openSerial", "connectRedis", "initValidator", "initHopper",
      "configureHopper", "configureValidator", "installPoll", "started", "loop">>
PcRank(p) ==
    IF \E k \in 1..Len(PcOrder) : PcOrder[k] = p
    THEN CHOOSE k \in 1..Len(PcOrder) : PcOrder[k] = p
    ELSE Len(PcOrder) + 1

\* C31: the validator part of setup() is entered once, at its first exchange,
\* exactly when the validator is available after the initialisation of both
\* peers, and is not left before its ninth exchange; its exchanges 2..8 are
\* the SET_ROUTE of 500, 1000, 2000 (EUR, cashbox) and 5000, 10000, 20000,
\* 50000 (EUR, storage), one each and in this order whatever the peer
\* answers, no other exchange of it is a SET_ROUTE, and no other step of the
\* program sends a SET_ROUTE.
C31_Routes ==
    [][/\ PcRank(pc) <= PcRank(pc')
       /\ (pc # "configureValidator" /\ pc' = "configureValidator") => step' = 1
       /\ (pc \in {"initHopper", "configureHopper"} /\ PcRank(pc') > PcRank("configureHopper"))
             => (pc' = "configureValidator" <=> sspDeviceAvailable'[Validator] # 0)
       /\ pc = "configureValidator" =>
             /\ last' = "configureValidator" /\ Len(exch') = 1
             /\ exch'[1].dev = Validator
             /\ IF step \in 2..8
                THEN /\ exch'[1].cmd = "SET_ROUTE" /\ exch'[1].args = Routes[step - 1]
                     /\ pc' = pc /\ step' = step + 1
                ELSE /\ exch'[1].cmd # "SET_ROUTE"
                     /\ pc' = pc => step' = step + 1
       /\ pc # "configureValidator" =>
             \A k \in 1..Len(exch') : exch'[k].cmd # "SET_ROUTE"
      ]_vars
\* the last route is set, after a route the validator refused
C31_Witness ==
    /\ pc = "configureValidator" /\ step = 9 /\ last = "configureValidator"
    /\ exch[1].cmd = "SET_ROUTE" /\ exch[1].args = <<50000, "EUR", 0>>
    /\ exch[1].resp = SSP_RESPONSE_FAILURE

\* C32: acceptCoins is written by one step only, the parsing of -c, which
\* sets it; the hopper part of setup() is entered at its first channel
\* exactly when the hopper is available after its initialisation, and as
\* long as it lasts each step sends one SET_COINMECH_INHIBITS to the hopper
\* for the next channel of the table SETUP_REQUEST stored, with ENABLED when
\* acceptCoins is set and DISABLED when it is not, whatever the peer
\* answers: it ends with the last channel, and no other step of the program
\* sends a SET_COINMECH_INHIBITS.
C32_CoinInhibits ==
    [][/\ PcRank(pc) <= PcRank(pc')
       /\ acceptCoins' # acceptCoins <=> (last' = "parseCmdLine-c" /\ pc' = "openSerial")
       /\ acceptCoins' # acceptCoins => (acceptCoins = 0 /\ acceptCoins' = 1)
       /\ (pc # "configureHopper" /\ pc' = "configureHopper") => step' = 1
       /\ (pc = "initHopper" /\ pc' # "initHopper")
             => (pc' = "configureHopper" <=> sspDeviceAvailable'[Hopper] # 0)
       /\ pc = "configureHopper" =>
             LET table == sspSetupReq[Hopper].ChannelData
             IN /\ last' = "configureHopper"
                /\ sspSetupReq' = sspSetupReq
                /\ step <= Len(table) =>
                      /\ Len(exch') = 1
                      /\ exch'[1].dev = Hopper /\ exch'[1].cmd = "SET_COINMECH_INHIBITS"
                      /\ exch'[1].args =
                            <<table[step], IF acceptCoins = 1 THEN "ENABLED" ELSE "DISABLED">>
                      /\ IF step < Len(table)
                         THEN pc' = pc /\ step' = step + 1
                         ELSE pc' # pc
                /\ step > Len(table) => (exch' = <<>> /\ pc' # pc)
       /\ pc # "configureHopper" =>
             \A k \in 1..Len(exch') : exch'[k].cmd # "SET_COINMECH_INHIBITS"
      ]_vars
\* -c was given: the second and last channel of the hopper is enabled
C32_Witness ==
    /\ last = "configureHopper" /\ pc # "configureHopper" /\ acceptCoins = 1
    /\ exch[1].cmd = "SET_COINMECH_INHIBITS" /\ exch[1].args = <<200, "ENABLED">>
    /\ sspSetupReq[Hopper].ChannelData = <<10, 200>>

\* the peers with which the exchanges x had a transport failure
TimedOutPeers(x) ==
    {x[k].dev : k \in {j \in 1..Len(x) : x[j].resp = SSP_RESPONSE_TIMEOUT}}

\* C33: a poll turn or a command handler of the running event loop in which
\* an exchange with a peer gets no answer leaves the process running and
\* leaves the availability flag of that peer at 0.
C33_RuntimeTimeout ==
    [][(pc = "loop" /\ last' \in {"request", "poll:hopper", "poll:validator"})
          => \A dev \in TimedOutPeers(exch') :
                 /\ pc' = "loop" /\ exitCode' = -1
                 /\ sspDeviceAvailable'[dev] = 0
      ]_vars

\* C34: the sequence bit of a peer is the number of its exchanges that got a
\* valid response, mod 2; it changes in a step exactly when that step ends an
\* exchange with a valid response, and then once; the frames of one exchange
\* all carry the same bit, a retry sends the bit of the frame before it, and
\* an exchange has at most 3 retries, that is 4 frames.
C34_SequenceBit ==
    /\ [](\A dev \in Devices :
            LET s == session[dev]
            IN /\ s.seq = s.valid % 2
               /\ Len(s.frames) <= 1 + 3
               /\ \A i, j \in 1..Len(s.frames) : s.frames[i] = s.frames[j])
    /\ [][\A dev \in Devices :
            LET s == session[dev]
                t == session'[dev]
            IN /\ t.seq # s.seq <=> t.valid # s.valid
               /\ t.valid # s.valid
                     => /\ t.valid = s.valid + 1 /\ t.seq = 1 - s.seq
                        /\ t.result = "ok"
                        /\ t.frames[Len(t.frames)] = s.seq
               /\ (t # s /\ t.result # "ok") => t.seq = s.seq
               /\ (t # s /\ s.result = "retry") => t.frames = Append(s.frames, s.seq)
               /\ (t # s /\ s.result # "retry") => t.frames = <<s.seq>>
          ]_vars
\* the second answered exchange of the hopper: its first frame was lost, the
\* retry was answered, and the bit is back at 0
C34_Witness ==
    /\ session[Hopper].result = "ok" /\ session[Hopper].valid = 2
    /\ session[Hopper].frames = <<1, 1>> /\ session[Hopper].seq = 0

\* C35: a command handler exchanges nothing with a peer whose availability
\* flag is 0.
C35_UnavailablePeer ==
    last = "request" =>
        \A k \in 1..Len(exch) : sspDeviceAvailable[exch[k].dev] # 0

\* C36: a poll turn whose POLL was answered with a batch of n events and
\* that did not end the process publishes n messages, the k-th of them for
\* the k-th event of the batch, all on the event topic of the polled peer.
C36_OneMessagePerEvent ==
    \A dev \in Devices :
        (BatchPolled(dev) /\ pc # "died") =>
            /\ Len(pub) = Len(exch[1].data)
            /\ \A k \in 1..Len(pub) :
                  pub[k].topic = dev \o "-event" /\ pub[k].src = k

\* the counter of a peer that applies the SET_DENOMINATION_LEVEL exchanges
\* x[k..] it answers with OK: a sent level of 0 sets the counter to 0, any
\* other is added to it; a command that is not answered with OK is not applied
RECURSIVE PeerCounter(_, _, _)
PeerCounter(counter, x, k) ==
    IF k > Len(x) THEN counter
    ELSE LET sent == x[k].args[1]
             after == IF x[k].resp # "SSP_RESPONSE_OK" THEN counter
                      ELSE IF sent = 0 THEN 0
                      ELSE counter + sent
         IN PeerCounter(after, x, k + 1)
\* what the counter of the denomination may be before the request
PriorCounters == {0, 1, 5}

\* C37: when a set-denomination-level with an amount >= 0 and a level of
\* 0..65535 is answered with result ok, the counter of a peer that applied the
\* exchanges of the handler is the level, whatever it was before.
C37_CounterIsLevel ==
    (/\ DenominationLevelCommand
     /\ req.level.wraps = 0 /\ req.level.n < 65536
     /\ Len(pub) = 1 /\ "result" \in pub[1].keys /\ pub[1].text = "ok")
        => \A before \in PriorCounters :
               PeerCounter(before, exch, 1) = req.level.n

\* C38: every READ with a channel byte above 0 and every CREDIT that the
\* validator handler went through reads the channel table at an index,
\* channel - 1, that lies in 0..NumberOfChannels-1 of the table SETUP_REQUEST
\* stored.
C38_ChannelIndex ==
    ValidatorBatchHandled =>
        LET batch == exch[1].data
            NumberOfChannels == Len(sspSetupReq[Validator].ChannelData)
        IN \A i \in 1..Len(batch) :
              (\/ batch[i].event = "READ" /\ batch[i].data1 > 0
               \/ batch[i].event = "CREDIT")
                  => batch[i].data1 - 1 \in 0..(NumberOfChannels - 1)

\* C39: once setup() has returned (main() is about to publish "started", or
\* the event loop runs) the poll tick is installed; the quit tick is
\* installed by the step that connects redis, which every such run has taken.
C39_TicksInstalled ==
    pc \in {"started", "loop"} => evPollInstalled

\* channelInhibits of dev may have been assigned: by setup(), which assigns
\* the mask of a validator it configures, or by the handler of an earlier
\* request
MaskAssigned(dev) ==
    \/ dev = Validator /\ sspDeviceAvailable[Validator] # 0
    \/ uuidClock > 0

\* C40: an enable-channels or disable-channels handler reads the mask of its
\* peer only after the mask was assigned.
C40_MaskAssignedBeforeRead ==
    [][ChannelCommand => MaskAssigned(PairedDevice(req'.topic))]_vars

====
